---- MODULE Spec2Model ----
(***************************************************************************)
(* OTP-gated project allocation of GL3E-manager.                           *)
(*                                                                         *)
(* Every HTTP request owns its own SQLAlchemy Session (app/database.py     *)
(* get_db); the services take no lock, issue no SELECT ... FOR UPDATE and  *)
(* carry no version column, so requests served in parallel interleave at   *)
(* the granularity of one database statement (a SELECT, or the flush of a  *)
(* commit).  A request therefore is a small process: its position (pc)     *)
(* and the attribute values its Session loaded.  An ORM assignment such as *)
(* otp.attempts += 1 is flushed as UPDATE ... SET attempts = <value the    *)
(* Session computed>, that is, an absolute write of loaded value + 1.      *)
(***************************************************************************)
EXTENDS Integers, Sequences, FiniteSets, TLC

\* ------------------------------------------------------------------ bounds
MaxOtps == 2         \* challenges issued in one run of the endpoints
MaxCalls == 2        \* verify-otp endpoint requests in one run
MaxVerifyOtps == 1   \* challenges issued in one run of the OTP service
MaxVerifyCalls == 4  \* verify_otp calls in one run of the OTP service
MaxAllocCalls == 4   \* assign_project_to_student calls in one run
MaxTime == 10        \* last value of the clock (minutes)

\* ------------------------------------------------ program constants / data
OTP_MAX_ATTEMPTS == 3
OTP_EXPIRY_MINUTES == 5
MAX_ASSIGNMENTS_DEFAULT == 1  \* mutant: the seed leaves the column default of Project.max_assignments
SEED_MAX_ASSIGNMENTS == 2
OTP_LENGTH == 6               \* config.py, Settings.OTP_LENGTH
SMTP_PORT == 465              \* config.py, Settings.SMTP_PORT
SMTP_USE_TLS == TRUE          \* config.py, Settings.SMTP_USE_TLS
DEFAULT_MAX_RETRIES == 1
DEFAULT_CIRCUIT_THRESHOLD == 5
DEFAULT_CIRCUIT_TIMEOUT_SECONDS == 60
DEFAULT_RATE_LIMIT_REQUESTS == 100
DEFAULT_RATE_LIMIT_WINDOW_SECONDS == 60

Codes == {0, 1}          \* codes a client may submit, and generate_otp_code
EndpointCodes == {1}     \* generate_otp_code in the run of the endpoints
Reqs == {1, 2}
Providers == {"mtarget", "twilio"}

VARIABLES
    now,            \* datetime.utcnow(), in minutes
    otps,           \* table otp_codes: sequence of rows, id = index
    has_project,    \* table students: id -> column has_project
    assigned_count, \* table projects: id -> column assigned_count
    max_assignments,\* table projects: id -> column max_assignments
    assignments,    \* table assignments: sequence of rows
    req,            \* per request: position and Session-loaded values
    budget,         \* requests the environment may still make in this run
    hist,           \* per challenge: history counters of verify_otp outcomes
    svc             \* sms_service: the in-memory state of the process

vars == <<now, otps, has_project, assigned_count, max_assignments,
          assignments, req, budget, hist, svc>>

Students == DOMAIN has_project
Projects == DOMAIN assigned_count

\* ------------------------------------------------------------------ rows
\* mutant: the expiry period is not added
NewOtpExpiresAtOnce(student_id, code, t) ==
    [student_id |-> student_id, code |-> code, created_at |-> t,
     expires_at |-> t, verified |-> FALSE, attempts |-> 0,
     sms_provider |-> "None"]

\* OTPCode row as create_otp builds it
NewOtp(student_id, code, t) ==
    [student_id |-> student_id, code |-> code, created_at |-> t,
     expires_at |-> t + OTP_EXPIRY_MINUTES, verified |-> FALSE, attempts |-> 0,
     sms_provider |-> "None"]

\* an Assignment row made out to the other student
NewAssignmentForOther(student_id, project_id) ==
    [student_id |-> 3 - student_id, project_id |-> project_id]

\* Assignment row as assign_project_to_student builds it
NewAssignment(student_id, project_id) ==
    [student_id |-> student_id, project_id |-> project_id]

IdleReq ==
    [pc |-> "idle", caller |-> "", otp |-> 0, code |-> 0, attempts |-> 0,
     start_verified |-> FALSE, student |-> 0,
     avail |-> <<>>, reason |-> "", remaining |-> 0, project |-> 0,
     status |-> 0, contact |-> <<>>]

NoHist == [ok |-> 0, charged |-> 0, wrong |-> 0]

\* CircuitBreaker.__init__
NewCircuitBreaker ==
    [state |-> "closed", failure_count |-> 0, last_failure_time |-> 0]

\* history of one breaker: failures recorded since the last recorded success,
\* failures recorded in all, and whether a half-open probe was granted whose
\* outcome is not recorded yet
NoCircuitHist == [streak |-> 0, failures |-> 0, probing |-> FALSE]

\* no breaker method called yet
NoCall == [n |-> 0, op |-> "", provider |-> "", ret |-> TRUE]

\* ------------------------------------------------------------------ Init
\* The database after init_db (students without project, projects unassigned
\* with max_assignments = 2), no challenge issued, no request in flight
Database(students, projects) ==
    /\ now = 0
    /\ otps = <<>>
    /\ has_project = [s \in students |-> FALSE]
    /\ assigned_count = [p \in projects |-> 0]
    /\ max_assignments = [p \in projects |-> SEED_MAX_ASSIGNMENTS]
    /\ assignments = <<>>
    /\ req = [r \in Reqs |-> IdleReq]
    /\ hist = <<>>

\* a caller of RateLimiter.allow that is not in the method
IdleCaller == [pc |-> "idle", now |-> 0, ret |-> TRUE]

\* RateLimiter.__init__, k sends having been admitted at monotonic time 0;
\* admits is the history of the timestamps of all calls that returned True
NewRateLimiter(k) ==
    [timestamps |-> [i \in 1..k |-> 0],
     admits |-> [i \in 1..k |-> 0],
     callers |-> [c \in Reqs |-> IdleCaller],
     calls |-> 0]

\* SMSMetrics.__init__ (the counters; the moving average of the durations
\* feeds nothing but the snapshot)
NewMetrics ==
    [total_sent |-> 0, total_failed |-> 0, total_retries |-> 0,
     sent_by_provider |-> [p \in Providers |-> 0],
     failed_by_provider |-> [p \in Providers |-> 0]]

\* a caller that is not in send_otp_sms / send_otp_email; of a send in
\* progress: the channel, the primary and the current provider, the attempt
\* number, whether the rate limiter admitted it, the providers whose breaker
\* let it through, the network calls it made in order, the results of the
\* runs of _send_with_retries that have returned, in order, and its
\* result; of an email send moreover the SMTP modes to try, the modes tried
\* in order and the error of the last attempt (0 for None, or the number of
\* the attempt that raised it)
IdleSend ==
    [pc |-> "idle", channel |-> "", primary |-> "", provider |-> "",
     attempt |-> 0, admitted |-> FALSE, permitted |-> {}, contacts |-> <<>>,
     success |-> FALSE, provider_used |-> "None",
     ran |-> <<>>, phone |-> <<>>,
     modes |-> <<>>, tried |-> <<>>, last_error |-> 0, error |-> 0]

\* an environment value of a numeric setting: an integer, or text that is
\* not one
EnvInt(n) == [is_int |-> TRUE, v |-> n]
NotAnInt == [is_int |-> FALSE, v |-> 0]

\* the process, started with the defaults of Settings and serving
ServingProcess ==
    [state |-> "serving",
     env |-> [OTP_LENGTH |-> EnvInt(OTP_LENGTH),
              OTP_EXPIRY_MINUTES |-> EnvInt(OTP_EXPIRY_MINUTES),
              OTP_MAX_ATTEMPTS |-> EnvInt(OTP_MAX_ATTEMPTS)],
     served |-> 0]

\* the services of the process (sms_service = SMSService(), email_service =
\* EmailService()) with the settings they read: both breakers closed, nothing admitted, the
\* counters at zero, no email sent, no second service to compare with;
\* time.monotonic() is counted from the start of the
\* process, in seconds
NewService ==
    [mono |-> 0,
     cb |-> [p \in Providers |-> NewCircuitBreaker],
     cbhist |-> [p \in Providers |-> NoCircuitHist],
     call |-> NoCall,
     rl |-> NewRateLimiter(0),
     max_retries |-> DEFAULT_MAX_RETRIES,
     metrics |-> NewMetrics,
     settings |-> [SMTP_PORT |-> SMTP_PORT, SMTP_USE_TLS |-> SMTP_USE_TLS,
                  OTP_LENGTH |-> OTP_LENGTH],
     emails |-> 0,
     twin |-> <<>>,
     proc |-> ServingProcess,
     sends |-> [c \in Reqs |-> IdleSend]]

\* the service after k calls of allow were admitted at time 0
ServiceAfter(k) == svc = [NewService EXCEPT !.rl = NewRateLimiter(k)]

Service == ServiceAfter(0)

Init ==
    /\ Database({1, 2}, {1})
    /\ Service
    /\ budget = [issues |-> MaxOtps, calls |-> MaxCalls]

\* The clock advances; it is observed once per expiry period, so that a
\* challenge is seen before, exactly at and after its expires_at
Tick ==
    /\ now + OTP_EXPIRY_MINUTES <= MaxTime
    /\ now' = now + OTP_EXPIRY_MINUTES
    /\ UNCHANGED <<svc, otps, has_project, assigned_count, max_assignments,
                   assignments, req, budget, hist, svc>>

\* ---------------------------------------------------------------- Issue
\* request_project up to create_otp: the student has no project yet, a new
\* row is inserted and committed
Issue(s, c) ==
    /\ budget.issues > 0
    /\ budget' = [budget EXCEPT !.issues = @ - 1]
    /\ ~has_project[s]
    /\ otps' = Append(otps, NewOtp(s, c, now))
    /\ hist' = Append(hist, NoHist)
    /\ UNCHANGED <<svc, now, has_project, assigned_count, max_assignments,
                   assignments, req>>

\* --------------------------------------------------------------- Verify
Finish(r, reason) ==
    [IdleReq EXCEPT !.pc = "done", !.reason = reason, !.otp = req[r].otp,
                    !.caller = req[r].caller,
                    !.code = req[r].code,
                    !.start_verified = req[r].start_verified]

\* mutant: the attempts guard is attempts > OTP_MAX_ATTEMPTS
VerifyGuardResultOffByOne(verified, expires_at, attempts, t) ==
    IF verified THEN "AlreadyUsed"
    ELSE IF t > expires_at THEN "Expired"
    ELSE IF attempts > OTP_MAX_ATTEMPTS THEN "AttemptsExhausted"
    ELSE "pass"

\* mutant: the expiry guard comes before the verified guard
VerifyGuardResultExpiryFirst(verified, expires_at, attempts, t) ==
    IF t > expires_at THEN "Expired"
    ELSE IF verified THEN "AlreadyUsed"
    ELSE IF attempts >= OTP_MAX_ATTEMPTS THEN "AttemptsExhausted"
    ELSE "pass"

\* mutant: the attempts guard comes before the expiry guard
VerifyGuardResultAttemptsFirst(verified, expires_at, attempts, t) ==
    IF verified THEN "AlreadyUsed"
    ELSE IF attempts >= OTP_MAX_ATTEMPTS THEN "AttemptsExhausted"
    ELSE IF t > expires_at THEN "Expired"
    ELSE "pass"

\* mutant: the expiry comparison is reversed
VerifyGuardResultExpiryReversed(verified, expires_at, attempts, t) ==
    IF verified THEN "AlreadyUsed"
    ELSE IF t < expires_at THEN "Expired"
    ELSE IF attempts >= OTP_MAX_ATTEMPTS THEN "AttemptsExhausted"
    ELSE "pass"

\* mutant: the attempts guard counts the attempt about to be made
VerifyGuardResultCountsAhead(verified, expires_at, attempts, t) ==
    IF verified THEN "AlreadyUsed"
    ELSE IF t > expires_at THEN "Expired"
    ELSE IF attempts + 1 >= OTP_MAX_ATTEMPTS THEN "AttemptsExhausted"
    ELSE "pass"

\* verify_otp line 127-170: the guards, on the values the Session loaded
VerifyGuardResult(verified, expires_at, attempts, t) ==
    IF verified THEN "AlreadyUsed"
    ELSE IF t > expires_at THEN "Expired"
    ELSE IF attempts >= OTP_MAX_ATTEMPTS THEN "AttemptsExhausted"
    ELSE "pass"

\* a new request takes the first free slot
FirstFree(r) ==
    /\ req[r].pc = "idle"
    /\ \A q \in Reqs : q < r => req[q].pc # "idle"

\* verify_otp line 105-170: SELECT the row into the Session, then the guards
\* on the loaded values; a call that passes them is charged one attempt
VerifyLoad(r, id, c, caller) ==
    /\ FirstFree(r)
    /\ budget.calls > 0
    /\ budget' = [budget EXCEPT !.calls = @ - 1]
    /\ IF id \notin 1..Len(otps)
         THEN /\ req' = [req EXCEPT ![r] =
                     [IdleReq EXCEPT !.pc = "done", !.otp = id, !.code = c,
                                     !.caller = caller,
                                     !.reason = "NotFound"]]
              /\ hist' = hist
         ELSE LET g == VerifyGuardResult(otps[id].verified,
                           otps[id].expires_at, otps[id].attempts, now)
                  q == [IdleReq EXCEPT !.otp = id, !.code = c,
                                       !.caller = caller,
                                       !.start_verified = otps[id].verified]
              IN IF g = "pass"
                   THEN /\ req' = [req EXCEPT ![r] =
                               [q EXCEPT !.pc = "v_incr",
                                         !.attempts = otps[id].attempts]]
                        /\ hist' = [hist EXCEPT ![id].charged = @ + 1]
                   ELSE /\ req' = [req EXCEPT ![r] =
                               [q EXCEPT !.pc = "done", !.reason = g]]
                        /\ hist' = hist
    /\ UNCHANGED <<svc, now, otps, has_project, assigned_count, max_assignments,
                   assignments>>

\* otp.attempts += 1 on the loaded value
IncrementedAttempts(loaded) == loaded + 1

\* verify_otp line 172-174: otp.attempts += 1; db.commit()
VerifyIncrement(r) ==
    /\ req[r].pc = "v_incr"
    /\ LET o == req[r].otp
       IN /\ otps' = [otps EXCEPT ![o].attempts =
                          IncrementedAttempts(req[r].attempts)]
          /\ req' = [req EXCEPT ![r].pc = "v_cmp"]
    /\ UNCHANGED <<svc, now, has_project, assigned_count, max_assignments,
                   assignments, budget, hist>>

\* verify_otp line 176-212: the row is reloaded (expired by the commit) and
\* the codes are compared; a mismatch reports the remaining attempts, a match
\* commits verified = True and the endpoint goes on to the allocation
VerifyCompare(r) ==
    /\ req[r].pc = "v_cmp"
    /\ LET o == req[r].otp
       IN IF otps[o].code # req[r].code
            THEN /\ req' = [req EXCEPT ![r] =
                        [Finish(r, "IncorrectCode") EXCEPT
                            !.remaining = OTP_MAX_ATTEMPTS - otps[o].attempts]]
                 /\ hist' = [hist EXCEPT ![o].wrong = @ + 1]
                 /\ otps' = otps
            ELSE /\ otps' = [otps EXCEPT ![o].verified = TRUE]
                 /\ req' = [req EXCEPT ![r] =
                        IF req[r].caller = "endpoint"
                          THEN [req[r] EXCEPT !.pc = "a_student",
                                              !.attempts = 0,
                                              !.student = otps[o].student_id]
                          ELSE Finish(r, "ok")]
                 /\ hist' = [hist EXCEPT ![o].ok = @ + 1]
    /\ UNCHANGED <<svc, now, has_project, assigned_count, max_assignments,
                   assignments, budget>>

\* ------------------------------------------------------------- Allocate
\* assign_project_to_student line 33-38
AllocStudent(r) ==
    /\ req[r].pc = "a_student"
    /\ LET s == req[r].student
       IN IF s \notin Students
            THEN req' = [req EXCEPT ![r] = Finish(r, "SubjectNotFound")]
            ELSE IF has_project[s]
                   THEN req' = [req EXCEPT ![r] = Finish(r, "AlreadyAllocated")]
                   ELSE req' = [req EXCEPT ![r].pc = "a_tier0"]
    /\ UNCHANGED <<svc, now, otps, has_project, assigned_count, max_assignments,
                   assignments, budget, hist>>

\* mutant: the filter is assigned_count >= n
ProjectsWithCountAtLeast(n) == {p \in Projects : assigned_count[p] >= n}

\* db.query(Project).filter(Project.assigned_count == n).all(), as a set
ProjectsWithCount(n) == {p \in Projects : assigned_count[p] = n}

\* the Project objects a query loaded: id -> loaded assigned_count
Loaded(ps) == [p \in ps |-> assigned_count[p]]

\* assign_project_to_student line 40-41: the unassigned projects
AllocTier0(r) ==
    /\ req[r].pc = "a_tier0"
    /\ LET av == ProjectsWithCount(0)
       IN IF av # {}
            THEN req' = [req EXCEPT ![r].pc = "a_commit",
                                    ![r].avail = Loaded(av)]
            ELSE req' = [req EXCEPT ![r].pc = "a_tier1"]
    /\ UNCHANGED <<svc, now, otps, has_project, assigned_count, max_assignments,
                   assignments, budget, hist>>

\* mutant: the student is marked before the projects are looked up, and the
\* mark is committed also when none is found
AllocTier1MarksStudent(r) ==
    /\ req[r].pc = "a_tier1"
    /\ LET av == ProjectsWithCount(1)
       IN IF av # {}
            THEN /\ req' = [req EXCEPT ![r].pc = "a_commit",
                                       ![r].avail = Loaded(av)]
                 /\ has_project' = has_project
            ELSE /\ req' = [req EXCEPT ![r] = Finish(r, "ExhaustedCapacity")]
                 /\ has_project' =
                        [has_project EXCEPT ![req[r].student] = TRUE]
    /\ UNCHANGED <<svc, now, otps, assigned_count, max_assignments,
                   assignments, budget, hist>>

\* assign_project_to_student line 43-49: the projects assigned once
AllocTier1(r) ==
    /\ req[r].pc = "a_tier1"
    /\ LET av == ProjectsWithCount(1)
       IN IF av # {}
            THEN req' = [req EXCEPT ![r].pc = "a_commit",
                                    ![r].avail = Loaded(av)]
            ELSE req' = [req EXCEPT ![r] = Finish(r, "ExhaustedCapacity")]
    /\ UNCHANGED <<svc, now, otps, has_project, assigned_count, max_assignments,
                   assignments, budget, hist>>

\* selected_project.assigned_count += 1 on the loaded value
IncrementedCount(loaded) == loaded + 1

\* assign_project_to_student line 51-74: random.choice, then one commit
\* inserts the assignment and updates the project and the student
AllocCommit(r) ==
    /\ req[r].pc = "a_commit"
    /\ \E p \in DOMAIN req[r].avail :
          /\ assignments' = Append(assignments,
                                   NewAssignment(req[r].student, p))
          /\ assigned_count' = [assigned_count EXCEPT ![p] =
                                    IncrementedCount(req[r].avail[p])]
          /\ has_project' = [has_project EXCEPT ![req[r].student] = TRUE]
          /\ req' = [req EXCEPT ![r] =
                        [Finish(r, "ok") EXCEPT !.project = p]]
    /\ UNCHANGED <<svc, now, otps, max_assignments, budget, hist>>

\* the endpoint has answered; the Session is closed
Respond(r) ==
    /\ req[r].pc = "done"
    /\ req' = [req EXCEPT ![r] = IdleReq]
    /\ UNCHANGED <<svc, now, otps, has_project, assigned_count, max_assignments,
                   assignments, budget, hist>>

\* assign_project_to_student called on its own, for any student id
AllocCall(r, s) ==
    /\ FirstFree(r)
    /\ budget.calls > 0
    /\ budget' = [budget EXCEPT !.calls = @ - 1]
    /\ req' = [req EXCEPT ![r] =
                  [IdleReq EXCEPT !.pc = "a_student", !.caller = "service",
                                  !.student = s]]
    /\ UNCHANGED <<svc, now, otps, has_project, assigned_count, max_assignments,
                   assignments, hist>>

\* ------------------------------------------------- the endpoints, in parallel
\* request_project and verify_otp_endpoint (verify_otp, then
\* assign_project_to_student for the challenge's student)
Next ==
    \/ Tick
    \/ \E s \in Students, c \in EndpointCodes : Issue(s, c)
    \/ \E r \in Reqs, id \in 1..MaxOtps, c \in Codes :
          VerifyLoad(r, id, c, "endpoint")
    \/ \E r \in Reqs : VerifyIncrement(r)
    \/ \E r \in Reqs : VerifyCompare(r)
    \/ \E r \in Reqs : AllocStudent(r)
    \/ \E r \in Reqs : AllocTier0(r)
    \/ \E r \in Reqs : AllocTier1(r)
    \/ \E r \in Reqs : AllocCommit(r)
    \/ \E r \in Reqs : Respond(r)

Spec == Init /\ [][Next]_vars

\* ------------------------------------------ the OTP service, called in parallel
InitOtp ==
    /\ Database({1}, {1})
    /\ Service
    /\ budget = [issues |-> MaxVerifyOtps, calls |-> MaxVerifyCalls]

NextOtp ==
    \/ Tick
    \/ \E s \in Students, c \in Codes : Issue(s, c)
    \/ \E r \in Reqs, id \in 1..(MaxVerifyOtps + 1), c \in Codes :
          VerifyLoad(r, id, c, "service")
    \/ \E r \in Reqs : VerifyIncrement(r)
    \/ \E r \in Reqs : VerifyCompare(r)
    \/ \E r \in Reqs : Respond(r)

SpecOtp == InitOtp /\ [][NextOtp]_vars

\* ----------------------------------- the allocation service, called in parallel
\* student ids start at 1: 0 is the id of no student
InitAlloc ==
    /\ \E projects \in {{1}, {1, 2}} : Database({1, 2}, projects)
    /\ Service
    /\ budget = [issues |-> 0, calls |-> MaxAllocCalls]

NextAlloc ==
    \/ \E r \in Reqs, s \in Students \cup {0} : AllocCall(r, s)
    \/ \E r \in Reqs : AllocStudent(r)
    \/ \E r \in Reqs : AllocTier0(r)
    \/ \E r \in Reqs : AllocTier1(r)
    \/ \E r \in Reqs : AllocCommit(r)
    \/ \E r \in Reqs : Respond(r)

SpecAlloc == InitAlloc /\ [][NextAlloc]_vars

\* --------------------------- verify_otp calls made one after another
\* a call is made only once the previous one has been answered
NextOtpSeq ==
    \/ Tick
    \/ \E s \in Students, c \in Codes : Issue(s, c)
    \/ \E r \in Reqs, id \in 1..(MaxVerifyOtps + 1), c \in Codes :
          /\ \A q \in Reqs : req[q].pc = "idle"
          /\ VerifyLoad(r, id, c, "service")
    \/ \E r \in Reqs : VerifyIncrement(r)
    \/ \E r \in Reqs : VerifyCompare(r)
    \/ \E r \in Reqs : Respond(r)

SpecOtpSeq == InitOtp /\ [][NextOtpSeq]_vars

\* ------------------------------------- request_project, with the delivery
MaxRequests == 2        \* request-project requests in one run
MaxRequestVerifies == 2 \* verify_otp calls in that run

\* request_project line 80-141: the student has no project, create_otp
\* inserts and commits the row; the handler then awaits the delivery
RequestCreate(r, s, c) ==
    /\ FirstFree(r)
    /\ budget.issues > 0
    /\ budget' = [budget EXCEPT !.issues = @ - 1]
    /\ ~has_project[s]
    /\ otps' = Append(otps, NewOtp(s, c, now))
    /\ hist' = Append(hist, NoHist)
    /\ req' = [req EXCEPT ![r] =
                  [IdleReq EXCEPT !.pc = "r_send", !.caller = "request",
                                  !.otp = Len(otps) + 1, !.student = s]]
    /\ UNCHANGED <<svc, now, has_project, assigned_count, max_assignments,
                   assignments>>

\* what the awaited delivery comes back with: a failure, a success by email
\* (no provider), or a success by SMS through a provider
SendResults == {"failed", "None"} \cup Providers

\* request_project line 143-172: the delivery returns; a failure is answered
\* with an error, an SMS success records the provider on the row it created
RequestRecord(r, result) ==
    /\ req[r].pc = "r_send"
    /\ LET o == req[r].otp
       IN IF result = "failed"
            THEN /\ req' = [req EXCEPT ![r] = Finish(r, "SendFailed")]
                 /\ otps' = otps
            ELSE /\ req' = [req EXCEPT ![r] = Finish(r, "ok")]
                 /\ otps' = IF result \in Providers
                              THEN [otps EXCEPT ![o].sms_provider = result]
                              ELSE otps
    /\ UNCHANGED <<svc, now, has_project, assigned_count, max_assignments,
                   assignments, budget, hist>>

\* request_project in parallel with verify_otp calls, the latter made one
\* after another
InitRequest ==
    /\ Database({1}, {1})
    /\ Service
    /\ budget = [issues |-> MaxRequests, calls |-> MaxRequestVerifies]

NextRequest ==
    \/ \E r \in Reqs, s \in Students, c \in EndpointCodes :
          RequestCreate(r, s, c)
    \/ \E r \in Reqs, result \in SendResults : RequestRecord(r, result)
    \/ \E r \in Reqs, id \in 1..MaxRequests, c \in Codes :
          /\ \A q \in Reqs : req[q].pc \notin {"v_incr", "v_cmp"}
          /\ VerifyLoad(r, id, c, "service")
    \/ \E r \in Reqs : VerifyIncrement(r)
    \/ \E r \in Reqs : VerifyCompare(r)
    \/ \E r \in Reqs : Respond(r)

SpecRequest == InitRequest /\ [][NextRequest]_vars

\* ------------------------------------------------------- CircuitBreaker
\* mutant: the cooldown comparison is >=
can_attemptAtCooldown(b, t) ==
    IF b.state = "closed" THEN [ret |-> TRUE, cb |-> b]
    ELSE IF b.state = "open"
      THEN IF t - b.last_failure_time >= DEFAULT_CIRCUIT_TIMEOUT_SECONDS
             THEN [ret |-> TRUE, cb |-> [b EXCEPT !.state = "half-open"]]
             ELSE [ret |-> FALSE, cb |-> b]
      ELSE [ret |-> TRUE, cb |-> b]

\* CircuitBreaker.can_attempt at time.monotonic() = t: the value returned and
\* the breaker afterwards
can_attempt(b, t) ==
    IF b.state = "closed" THEN [ret |-> TRUE, cb |-> b]
    ELSE IF b.state = "open"
      THEN IF t - b.last_failure_time > DEFAULT_CIRCUIT_TIMEOUT_SECONDS
             THEN [ret |-> TRUE, cb |-> [b EXCEPT !.state = "half-open"]]
             ELSE [ret |-> FALSE, cb |-> b]
      ELSE [ret |-> TRUE, cb |-> b]

\* mutant: a success leaves the failure counter as it is
record_successKeepsCount(b) ==
    [b EXCEPT !.state = IF @ = "half-open" THEN "closed" ELSE @]

\* a success resets the failure counter and leaves the state as it is
record_successOnlyResets(b) == [b EXCEPT !.failure_count = 0]

\* CircuitBreaker.record_success
record_success(b) ==
    [b EXCEPT !.failure_count = 0,
              !.state = IF @ = "half-open" THEN "closed" ELSE @]

\* CircuitBreaker.record_failure at time.monotonic() = t
record_failure(b, t) ==
    LET n == b.failure_count + 1
    IN [b EXCEPT !.failure_count = n,
                 !.last_failure_time = t,
                 !.state = IF n >= DEFAULT_CIRCUIT_THRESHOLD
                             THEN "open" ELSE @]

MaxBreakerCalls == 10  \* breaker method calls in one run
MaxMonoTicks == 3      \* cooldown periods the monotonic clock runs through

\* the monotonic clock advances; it is observed once per cooldown period, so
\* that an open breaker is seen before, exactly at and after its cooldown
MonoTick ==
    /\ svc.mono + DEFAULT_CIRCUIT_TIMEOUT_SECONDS
          <= MaxMonoTicks * DEFAULT_CIRCUIT_TIMEOUT_SECONDS
    /\ svc' = [svc EXCEPT !.mono = @ + DEFAULT_CIRCUIT_TIMEOUT_SECONDS]
    /\ UNCHANGED <<now, otps, has_project, assigned_count, max_assignments,
                   assignments, req, budget, hist>>

\* the record of a breaker method call
Call(op, p, ret) ==
    [n |-> svc.call.n + 1, op |-> op, provider |-> p, ret |-> ret]

\* a caller asks the breaker of provider p for permission
CircuitCanAttempt(p) ==
    /\ svc.call.n < MaxBreakerCalls
    /\ LET a == can_attempt(svc.cb[p], svc.mono)
       IN svc' = [svc EXCEPT
                     !.cb[p] = a.cb,
                     !.cbhist[p].probing =
                         @ \/ (a.ret /\ a.cb.state = "half-open"),
                     !.call = Call("can_attempt", p, a.ret)]
    /\ UNCHANGED <<now, otps, has_project, assigned_count, max_assignments,
                   assignments, req, budget, hist>>

\* a caller reports a delivery through provider p
CircuitRecordSuccess(p) ==
    /\ svc.call.n < MaxBreakerCalls
    /\ svc' = [svc EXCEPT
                  !.cb[p] = record_success(@),
                  !.cbhist[p] = [@ EXCEPT !.streak = 0, !.probing = FALSE],
                  !.call = Call("record_success", p, TRUE)]
    /\ UNCHANGED <<now, otps, has_project, assigned_count, max_assignments,
                   assignments, req, budget, hist>>

\* a caller reports a failed run over provider p
CircuitRecordFailure(p) ==
    /\ svc.call.n < MaxBreakerCalls
    /\ svc' = [svc EXCEPT
                  !.cb[p] = record_failure(@, svc.mono),
                  !.cbhist[p] = [@ EXCEPT !.streak = @ + 1,
                                          !.failures = @ + 1,
                                          !.probing = FALSE],
                  !.call = Call("record_failure", p, TRUE)]
    /\ UNCHANGED <<now, otps, has_project, assigned_count, max_assignments,
                   assignments, req, budget, hist>>

\* one breaker (the two are instances of the same class and share nothing),
\* its methods called in any order: sends run in parallel, so the outcome of
\* an attempt may be recorded after other callers changed the breaker
InitBreaker ==
    /\ Database({1}, {1})
    /\ Service
    /\ budget = [issues |-> 0, calls |-> 0]

NextBreaker ==
    \/ MonoTick
    \/ \E p \in {"mtarget"} : CircuitCanAttempt(p)
    \/ \E p \in {"mtarget"} : CircuitRecordSuccess(p)
    \/ \E p \in {"mtarget"} : CircuitRecordFailure(p)

SpecBreaker == InitBreaker /\ [][NextBreaker]_vars

\* ---------------------------------------------------------- RateLimiter
\* an allow that keeps a timestamp that is exactly one window old
allowKeepsAtCutoff(timestamps, t) ==
    LET cutoff == t - DEFAULT_RATE_LIMIT_WINDOW_SECONDS
        kept == SelectSeq(timestamps, LAMBDA ts : ts >= cutoff)
    IN IF Len(kept) >= DEFAULT_RATE_LIMIT_REQUESTS
         THEN [ret |-> FALSE, timestamps |-> kept]
         ELSE [ret |-> TRUE, timestamps |-> Append(kept, t)]

\* RateLimiter.allow line 110-116, on the clock value t the caller read: the
\* value returned and the timestamp list afterwards
allow(timestamps, t) ==
    LET cutoff == t - DEFAULT_RATE_LIMIT_WINDOW_SECONDS
        kept == SelectSeq(timestamps, LAMBDA ts : ts > cutoff)
    IN IF Len(kept) >= DEFAULT_RATE_LIMIT_REQUESTS
         THEN [ret |-> FALSE, timestamps |-> kept]
         ELSE [ret |-> TRUE, timestamps |-> Append(kept, t)]

MaxAllowCalls == 4   \* RateLimiter.allow calls in one run

\* the monotonic clock advances by half a window, so that two calls are seen
\* less than a window, exactly a window and more than a window apart
HalfWindowTick ==
    /\ svc.mono + DEFAULT_RATE_LIMIT_WINDOW_SECONDS \div 2
          <= MaxMonoTicks * DEFAULT_RATE_LIMIT_WINDOW_SECONDS
    /\ svc' = [svc EXCEPT
                  !.mono = @ + DEFAULT_RATE_LIMIT_WINDOW_SECONDS \div 2]
    /\ UNCHANGED <<now, otps, has_project, assigned_count, max_assignments,
                   assignments, req, budget, hist>>

\* RateLimiter.allow line 109: the caller reads the clock, outside the lock
AllowRead(c) ==
    /\ svc.rl.callers[c].pc = "idle"
    /\ svc.rl.calls + Cardinality({d \in Reqs :
                           svc.rl.callers[d].pc = "read"}) < MaxAllowCalls
    /\ svc' = [svc EXCEPT !.rl.callers[c] =
                  [pc |-> "read", now |-> svc.mono, ret |-> TRUE]]
    /\ UNCHANGED <<now, otps, has_project, assigned_count, max_assignments,
                   assignments, req, budget, hist>>

\* RateLimiter.allow line 111-116: under the lock, evict, compare, append
AllowLocked(c) ==
    /\ svc.rl.callers[c].pc = "read"
    /\ LET t == svc.rl.callers[c].now
           a == allow(svc.rl.timestamps, t)
       IN svc' = [svc EXCEPT
                     !.rl.timestamps = a.timestamps,
                     !.rl.admits = IF a.ret THEN Append(@, t) ELSE @,
                     !.rl.callers[c] = [IdleCaller EXCEPT !.ret = a.ret],
                     !.rl.calls = @ + 1]
    /\ UNCHANGED <<now, otps, has_project, assigned_count, max_assignments,
                   assignments, req, budget, hist>>

\* one RateLimiter, called from parallel callers; it has admitted nothing yet
\* or is one short of its cap
InitLimiter ==
    /\ Database({1}, {1})
    /\ \E k \in {0, DEFAULT_RATE_LIMIT_REQUESTS - 1} : ServiceAfter(k)
    /\ budget = [issues |-> 0, calls |-> 0]

NextLimiter ==
    \/ HalfWindowTick
    \/ \E c \in Reqs : AllowRead(c)
    \/ \E c \in Reqs : AllowLocked(c)

SpecLimiter == InitLimiter /\ [][NextLimiter]_vars

\* ------------------------------------------------------------ SMS sends
\* SMSMetrics.record_success, record_failure, record_retry
metrics_record_success(m, p) ==
    [m EXCEPT !.total_sent = @ + 1, !.sent_by_provider[p] = @ + 1]

metrics_record_failure(m, p) ==
    [m EXCEPT !.total_failed = @ + 1, !.failed_by_provider[p] = @ + 1]

\* a retry that the metrics do not count
metrics_record_retryUncounted(m) == m

metrics_record_retry(m) == [m EXCEPT !.total_retries = @ + 1]

\* a routing whose fallback is the primary provider again
FallbackSame(primary) == primary

\* send_otp_sms line 515-517
Fallback(primary) == IF primary = "mtarget" THEN "twilio" ELSE "mtarget"

\* the service s after can_attempt returned a on the breaker of p
AfterCanAttempt(s, p, a) ==
    [s EXCEPT !.cb[p] = a.cb,
              !.cbhist[p].probing = @ \/ (a.ret /\ a.cb.state = "half-open")]

\* the service s after record_success on the breaker of p
AfterRecordSuccess(s, p) ==
    [s EXCEPT !.cb[p] = record_success(@),
              !.cbhist[p] = [@ EXCEPT !.streak = 0, !.probing = FALSE]]

\* the service s after record_failure on the breaker of p
AfterRecordFailure(s, p) ==
    [s EXCEPT !.cb[p] = record_failure(@, s.mono),
              !.cbhist[p] = [@ EXCEPT !.streak = @ + 1, !.failures = @ + 1,
                                      !.probing = FALSE]]

\* what one run of _send_with_retries returned
RunResult(p, ok) == [provider |-> p, success |-> ok]

\* send_otp_sms line 549-565: both providers failed
AfterBothFailed(s, c) ==
    [s EXCEPT !.sends[c].pc = "done", !.sends[c].success = FALSE,
              !.sends[c].provider_used = "None"]

\* send_otp_sms that gives up after the primary provider
EnterFallbackGivesUp(s, c) == AfterBothFailed(s, c)

\* _send_with_retries line 421-447 for the fallback provider, up to the
\* awaited network call: a blocked attempt is counted as failed and ends the
\* send
EnterFallback(s, c) ==
    LET p == Fallback(s.sends[c].primary)
        a == can_attempt(s.cb[p], s.mono)
        s1 == AfterCanAttempt(s, p, a)
    IN IF a.ret
         THEN [s1 EXCEPT !.sends[c].pc = "net", !.sends[c].provider = p,
                         !.sends[c].attempt = 1,
                         !.sends[c].permitted = @ \cup {p},
                         !.sends[c].contacts = Append(@, p)]
         ELSE AfterBothFailed(
                  [s1 EXCEPT !.metrics = metrics_record_failure(@, p),
                             !.sends[c].ran = Append(@, RunResult(p, FALSE))],
                  c)

\* _send_with_retries line 421-447 for the primary provider, up to the
\* awaited network call: a blocked attempt is counted as failed and the send
\* goes on with the fallback (send_otp_sms line 531-547)
EnterPrimary(s, c) ==
    LET p == s.sends[c].primary
        a == can_attempt(s.cb[p], s.mono)
        s1 == AfterCanAttempt(s, p, a)
    IN IF a.ret
         THEN [s1 EXCEPT !.sends[c].pc = "net", !.sends[c].provider = p,
                         !.sends[c].attempt = 1,
                         !.sends[c].permitted = @ \cup {p},
                         !.sends[c].contacts = Append(@, p)]
         ELSE EnterFallback(
                  [s1 EXCEPT !.metrics = metrics_record_failure(@, p),
                             !.sends[c].ran = Append(@, RunResult(p, FALSE))],
                  c)

\* send_otp_sms line 497-531: the rate limiter, the routing by destination
\* (is_cm: a Cameroon number), then the primary provider
AfterSendStart(s, c, is_cm) ==
    LET a == allow(s.rl.timestamps, s.mono)
        s1 == [s EXCEPT
                  !.rl.timestamps = a.timestamps,
                  !.rl.admits = IF a.ret THEN Append(@, s.mono) ELSE @,
                  !.sends[c] = [IdleSend EXCEPT
                      !.channel = "sms",
                      !.primary = IF is_cm THEN "mtarget" ELSE "twilio",
                      !.admitted = a.ret]]
    IN IF a.ret
         THEN EnterPrimary(s1, c)
         ELSE [s1 EXCEPT !.sends[c].pc = "done"]

\* a loop that stops retrying once the metrics have counted a retry
AttemptsLeftNoEarlierRetry(s, c) ==
    s.sends[c].attempt < s.max_retries /\ s.metrics.total_retries = 0

\* a loop that makes one attempt more
AttemptsLeftOneMore(s, c) == s.sends[c].attempt <= s.max_retries

\* _send_with_retries line 434: for attempt in range(1, max_retries + 1)
AttemptsLeft(s, c) == s.sends[c].attempt < s.max_retries

\* _send_with_retries line 440-491: the awaited network call returns.  A
\* success is recorded and ends the send; a failure is followed by the next
\* attempt (after the backoff sleep) while attempts remain, else it is
\* recorded and the send goes on with the fallback or ends
AfterSendOutcome(s, c, ok) ==
    LET p == s.sends[c].provider
    IN IF ok
         THEN [AfterRecordSuccess(s, p) EXCEPT
                  !.metrics = metrics_record_success(@, p),
                  !.sends[c].ran = Append(@, RunResult(p, TRUE)),
                  !.sends[c].pc = "done", !.sends[c].success = TRUE,
                  !.sends[c].provider_used = p]
         ELSE IF AttemptsLeft(s, c)
                THEN [s EXCEPT !.metrics = metrics_record_retry(@),
                               !.sends[c].attempt = @ + 1,
                               !.sends[c].contacts = Append(@, p)]
                ELSE LET s1 == [AfterRecordFailure(s, p) EXCEPT
                                   !.metrics = metrics_record_failure(@, p),
                                   !.sends[c].ran =
                                       Append(@, RunResult(p, FALSE))]
                     IN IF p = s.sends[c].primary
                          THEN EnterFallback(s1, c)
                          ELSE AfterBothFailed(s1, c)

MaxSends == 2   \* sends started in one run

\* the time the sends of one run are watched for: beyond the cooldown of a
\* breaker that opened at the start and beyond the window of the rate limiter
SendHorizon == 2 * DEFAULT_CIRCUIT_TIMEOUT_SECONDS

\* the monotonic clock advances to the horizon
LongTick ==
    /\ svc.mono < SendHorizon
    /\ svc' = [svc EXCEPT !.mono = SendHorizon]
    /\ UNCHANGED <<now, otps, has_project, assigned_count, max_assignments,
                   assignments, req, budget, hist>>

\* the sends started so far in this run
Started(s) == s.rl.calls

\* a request calls send_otp_sms
SendStart(c, is_cm) ==
    /\ svc.sends[c].pc = "idle"
    /\ Started(svc) < MaxSends
    /\ svc' = [AfterSendStart(svc, c, is_cm) EXCEPT !.rl.calls = @ + 1]
    /\ UNCHANGED <<now, otps, has_project, assigned_count, max_assignments,
                   assignments, req, budget, hist>>

\* the provider answers, or the call times out or raises
SendOutcome(c, ok) ==
    /\ svc.sends[c].pc = "net"
    /\ svc' = AfterSendOutcome(svc, c, ok)
    /\ UNCHANGED <<now, otps, has_project, assigned_count, max_assignments,
                   assignments, req, budget, hist>>

\* the result went back to the caller
SendReturn(c) ==
    /\ svc.sends[c].pc = "done"
    /\ svc' = [svc EXCEPT !.sends[c] = IdleSend]
    /\ UNCHANGED <<now, otps, has_project, assigned_count, max_assignments,
                   assignments, req, budget, hist>>

\* the service after ok sends delivered by mtarget at the first attempt and
\* then failed sends in which mtarget failed max_retries = mr attempts and
\* twilio delivered at its first attempt, all at monotonic time 0
ServiceAfterSends(ok, failed, mr) ==
    [NewService EXCEPT
        !.max_retries = mr,
        !.rl = NewRateLimiter(ok + failed),
        !.cb["mtarget"].failure_count = failed,
        !.cbhist["mtarget"] = [streak |-> failed, failures |-> failed,
                               probing |-> FALSE],
        !.metrics = [total_sent |-> ok + failed,
                     total_failed |-> failed,
                     total_retries |-> failed * (mr - 1),
                     sent_by_provider |-> [p \in Providers |->
                         IF p = "mtarget" THEN ok ELSE failed],
                     failed_by_provider |-> [p \in Providers |->
                         IF p = "mtarget" THEN failed ELSE 0]]]

\* SMS sends in parallel.  max_retries is a field of SMSServiceConfig (its
\* default is DEFAULT_MAX_RETRIES); the service starts fresh, or with the
\* mtarget breaker one failure short of opening, or moreover with the rate
\* limiter one admission short of its cap
InitSms ==
    /\ Database({1}, {1})
    /\ budget = [issues |-> 0, calls |-> 0]
    /\ \E mr \in {DEFAULT_MAX_RETRIES, DEFAULT_MAX_RETRIES + 1} :
       \E h \in {<<0, 0>>,
                 <<0, DEFAULT_CIRCUIT_THRESHOLD - 1>>,
                 <<DEFAULT_RATE_LIMIT_REQUESTS - DEFAULT_CIRCUIT_THRESHOLD,
                   DEFAULT_CIRCUIT_THRESHOLD - 1>>} :
          svc = ServiceAfterSends(h[1], h[2], mr)

NextSms ==
    \/ LongTick
    \/ \E c \in Reqs, is_cm \in BOOLEAN : SendStart(c, is_cm)
    \/ \E c \in Reqs, ok \in BOOLEAN : SendOutcome(c, ok)
    \/ \E c \in Reqs : SendReturn(c)

SpecSms == InitSms /\ [][NextSms]_vars

\* every awaited provider call returns: the HTTP call to mTarget and the
\* Twilio call have a timeout, and the backoff sleep is finite
FairSpecSms ==
    SpecSms /\ \A c \in Reqs : WF_vars(\E ok \in BOOLEAN : SendOutcome(c, ok))

\* ---------------------------------------------------------- email sends
\* a transport mode as _send_message hands it to aiosmtplib.send
SmtpMode(use_tls, start_tls) == [use_tls |-> use_tls, start_tls |-> start_tls]

ImplicitTLS == SmtpMode(TRUE, "False")
StartTLS == SmtpMode(FALSE, "True")
ConfiguredMode(use_tls) == SmtpMode(use_tls, "None")

\* push of _build_smtp_modes: append unless an equal entry is there
push(modes, mode) ==
    IF \E i \in 1..Len(modes) : modes[i] = mode THEN modes
    ELSE Append(modes, mode)

\* _build_smtp_modes without the case of port 465
_build_smtp_modesAnyPort(port, use_tls) ==
    push(push(push(<<>>, ConfiguredMode(use_tls)), StartTLS), ImplicitTLS)

_build_smtp_modes(port, use_tls) ==
    IF port = 465 THEN push(<<>>, ImplicitTLS)
    ELSE push(push(push(<<>>, ConfiguredMode(use_tls)), StartTLS), ImplicitTLS)

\* send_otp_email up to the first awaited aiosmtplib.send: neither the rate
\* limiter nor a circuit breaker is asked
AfterEmailStart(s, c) ==
    LET modes == _build_smtp_modes(s.settings.SMTP_PORT,
                                   s.settings.SMTP_USE_TLS)
    IN [s EXCEPT !.sends[c] = [IdleSend EXCEPT
            !.pc = "net", !.channel = "email", !.provider = "smtp",
            !.modes = modes, !.attempt = 1,
            !.contacts = <<"smtp">>, !.tried = <<modes[1]>>]]

\* _send_message: aiosmtplib.send returns or raises.  After a success the
\* loop is left with no error; after a failure the next mode follows, and
\* after the last mode the error is raised, which send_otp_email turns into
\* a failed result
AfterEmailOutcome(s, c, ok) ==
    LET e == s.sends[c]
    IN IF ok
         THEN [s EXCEPT !.sends[c].pc = "done", !.sends[c].success = TRUE,
                        !.sends[c].last_error = 0]
         ELSE IF e.attempt < Len(e.modes)
                THEN [s EXCEPT !.sends[c].attempt = @ + 1,
                               !.sends[c].last_error = e.attempt,
                               !.sends[c].contacts = Append(@, "smtp"),
                               !.sends[c].tried =
                                   Append(@, e.modes[e.attempt + 1])]
                ELSE [s EXCEPT !.sends[c].pc = "done",
                               !.sends[c].success = FALSE,
                               !.sends[c].last_error = e.attempt,
                               !.sends[c].error = e.attempt]

MaxEmails == 2   \* email sends started in one run

\* a request calls send_otp_email
EmailStart(c) ==
    /\ svc.sends[c].pc = "idle"
    /\ svc.emails < MaxEmails
    /\ svc' = [AfterEmailStart(svc, c) EXCEPT !.emails = @ + 1]
    /\ UNCHANGED <<now, otps, has_project, assigned_count, max_assignments,
                   assignments, req, budget, hist>>

\* the SMTP server answers, or the connection fails
EmailOutcome(c, ok) ==
    /\ svc.sends[c].pc = "net"
    /\ svc.sends[c].channel = "email"
    /\ svc' = AfterEmailOutcome(svc, c, ok)
    /\ UNCHANGED <<now, otps, has_project, assigned_count, max_assignments,
                   assignments, req, budget, hist>>

\* the SMTP ports of the runs: SMTPS, submission, and one that is neither
SmtpPorts == {SMTP_PORT, 587, 2525}

\* email sends in parallel, under each setting of port and SMTP_USE_TLS
InitEmail ==
    /\ Database({1}, {1})
    /\ budget = [issues |-> 0, calls |-> 0]
    /\ \E port \in SmtpPorts, use_tls \in BOOLEAN :
          svc = [NewService EXCEPT
                    !.settings = [SMTP_PORT |-> port,
                                  SMTP_USE_TLS |-> use_tls]]

NextEmail ==
    \/ \E c \in Reqs : EmailStart(c)
    \/ \E c \in Reqs, ok \in BOOLEAN : EmailOutcome(c, ok)
    \/ \E c \in Reqs : SendReturn(c)

SpecEmail == InitEmail /\ [][NextEmail]_vars

\* ================================================================ claims
AssignmentsOfProject(p) ==
    Cardinality({i \in 1..Len(assignments) : assignments[i].project_id = p})

AssignmentsOfStudent(s) ==
    Cardinality({i \in 1..Len(assignments) : assignments[i].student_id = s})

InFlight(pcs) == {r \in Reqs : req[r].pc \in pcs}

\* r makes its verify_otp call on challenge o in this step
VerifyCalled(r, o) ==
    /\ req[r].pc = "idle"
    /\ req'[r].pc # "idle"
    /\ req'[r].otp = o
    /\ o \in 1..Len(otps)

\* C1: in every reachable state, under any interleaving of parallel
\* assign_project_to_student calls, every project's assigned_count is at most
\* its max_assignments.
C1_CountWithinCapacity ==
    \A p \in Projects : assigned_count[p] <= max_assignments[p]

\* C1 witness: a project is full while two calls allocated the same student in
\* parallel
C1_Witness ==
    /\ \E p \in Projects : assigned_count[p] = max_assignments[p]
    /\ \E s \in Students : AssignmentsOfStudent(s) >= 2

\* C2: every student gets at most one Assignment record, and has_project
\* goes from false to true once and never back, also when allocations for the
\* same student run in parallel.
C2_OneAssignmentPerStudent ==
    \A s \in Students :
        /\ AssignmentsOfStudent(s) <= 1
        /\ AssignmentsOfStudent(s) = 1 => has_project[s]

\* C3: for one challenge at most one verify_otp call returns ok = true, also
\* when two calls with the correct code run in parallel.
C3_AtMostOneSuccess ==
    \A o \in 1..Len(otps) : hist[o].ok <= 1

\* C4: in every reachable state every challenge's attempts is at most
\* OTP_MAX_ATTEMPTS, also when parallel calls pass the attempts check before
\* any of them increments.
C4_AttemptsWithinMax ==
    \A o \in 1..Len(otps) : otps[o].attempts <= OTP_MAX_ATTEMPTS

\* C4 witness: the counter is at its maximum although more calls than that
\* passed the guards (some of them in parallel)
C4_Witness ==
    \E o \in 1..Len(otps) :
        /\ otps[o].attempts = OTP_MAX_ATTEMPTS
        /\ hist[o].charged > OTP_MAX_ATTEMPTS

\* C5: no lost update: once no call is between its guards and its increment,
\* attempts equals the number of calls that passed the guards.
C5_NoLostAttempt ==
    \A o \in 1..Len(otps) :
        (\A r \in InFlight({"v_incr"}) : req[r].otp # o)
            => otps[o].attempts = hist[o].charged

\* C6: a verify_otp call made on a challenge that is already verified fails
\* with AlreadyUsed, whatever code it carries and whatever the clock says.
C6_VerifiedIsAlreadyUsed ==
    \A r \in Reqs :
        req[r].start_verified
            => req[r].pc = "done" /\ req[r].reason = "AlreadyUsed"

\* C6 witness: the correct code was submitted again after the success, past
\* the expiry time, and was answered AlreadyUsed
C6_Witness ==
    \E r \in Reqs :
        /\ req[r].pc = "done"
        /\ req[r].reason = "AlreadyUsed"
        /\ req[r].code = otps[req[r].otp].code
        /\ now > otps[req[r].otp].expires_at

\* C7: the three effects of an allocation are one unit: in every state the
\* number of Assignment records of a project equals its assigned_count, and a
\* student has has_project exactly when it has exactly one Assignment record.
C7_AllocationConsistent ==
    /\ \A p \in Projects : AssignmentsOfProject(p) = assigned_count[p]
    /\ \A s \in Students : has_project[s] <=> AssignmentsOfStudent(s) = 1

GuardReasons == {"NotFound", "AlreadyUsed", "Expired", "AttemptsExhausted"}

\* C8: the guards are evaluated in the order NotFound, AlreadyUsed, Expired,
\* AttemptsExhausted, before the increment: a call answered with one of these
\* reasons leaves every challenge (attempts and verified) as it was, and the
\* reason is the first guard in that order that the challenge fails.
C8_GuardsBeforeIncrement ==
    [][\A r \in Reqs :
          (req[r].pc # "done" /\ req'[r].pc = "done"
              /\ req'[r].reason \in GuardReasons)
          => /\ otps' = otps
             /\ LET o == req'[r].otp
                IN /\ req'[r].reason = "NotFound" <=> o \notin 1..Len(otps)
                   /\ req'[r].reason = "AlreadyUsed" => otps[o].verified
                   /\ req'[r].reason = "Expired" =>
                         ~otps[o].verified /\ now > otps[o].expires_at
                   /\ req'[r].reason = "AttemptsExhausted" =>
                         /\ ~otps[o].verified
                         /\ now <= otps[o].expires_at
                         /\ otps[o].attempts >= OTP_MAX_ATTEMPTS]_vars

\* C8 witness: a call was answered AttemptsExhausted and the counter still is
\* at the maximum, the challenge unverified
C8_Witness ==
    \E r \in Reqs :
        /\ req[r].pc = "done"
        /\ req[r].reason = "AttemptsExhausted"
        /\ otps[req[r].otp].attempts = OTP_MAX_ATTEMPTS
        /\ ~otps[req[r].otp].verified

\* C9: a verify_otp call on an unverified challenge made strictly after
\* expires_at is answered Expired, also with the correct code, and leaves
\* verified = false.
C9_ExpiredRejected ==
    [][\A r \in Reqs : \A o \in 1..Len(otps) :
          (VerifyCalled(r, o) /\ ~otps[o].verified /\ now > otps[o].expires_at)
          => /\ req'[r].pc = "done"
             /\ req'[r].reason = "Expired"
             /\ otps' = otps]_vars

\* C9 witness: the correct code, submitted after expiry, was answered Expired
\* and the challenge is unverified
C9_Witness ==
    \E r \in Reqs :
        /\ req[r].pc = "done"
        /\ req[r].reason = "Expired"
        /\ req[r].code = otps[req[r].otp].code
        /\ ~otps[req[r].otp].verified
        /\ hist[req[r].otp].ok = 0

\* C10: no bypass of the attempt budget: once OTP_MAX_ATTEMPTS wrong codes
\* have been answered on an unexpired challenge, a further call with the
\* correct code is answered AttemptsExhausted and does not verify it.
C10_NoBypass ==
    [][\A r \in Reqs : \A o \in 1..Len(otps) :
          (VerifyCalled(r, o) /\ hist[o].wrong >= OTP_MAX_ATTEMPTS
              /\ ~otps[o].verified /\ now <= otps[o].expires_at)
          => /\ req'[r].pc = "done"
             /\ req'[r].reason = "AttemptsExhausted"]_vars

\* r is answered in this step
Answered(r) == req[r].pc # "done" /\ req'[r].pc = "done"

\* r is answered in this step, on challenge o, having submitted a wrong code
\* after k wrong codes and no correct one were answered, o still unexpired
WrongAfter(r, o, k) ==
    /\ Answered(r)
    /\ req'[r].otp = o
    /\ req'[r].code # otps[o].code
    /\ hist[o].wrong = k
    /\ hist[o].ok = 0
    /\ now <= otps[o].expires_at

\* C11 as stated: with OTP_MAX_ATTEMPTS = 3, of three wrong codes submitted
\* one after another to a fresh unexpired challenge, the third is answered
\* AttemptsExhausted.
C11_ThirdWrongExhausted ==
    [][\A r \in Reqs : \A o \in 1..Len(otps) :
          WrongAfter(r, o, OTP_MAX_ATTEMPTS - 1)
          => req'[r].reason = "AttemptsExhausted"]_vars

\* C11 amended: of three wrong codes submitted one after another to a fresh
\* unexpired challenge, the third is answered IncorrectCode with 0 attempts
\* remaining; it is the next call that is answered AttemptsExhausted.
C11_ThirdWrongIncorrect ==
    [][\A r \in Reqs : \A o \in 1..Len(otps) :
          /\ WrongAfter(r, o, OTP_MAX_ATTEMPTS - 1)
             => /\ req'[r].reason = "IncorrectCode"
                /\ req'[r].remaining = 0
          /\ (VerifyCalled(r, o) /\ hist[o].wrong = OTP_MAX_ATTEMPTS
                 /\ hist[o].ok = 0 /\ now <= otps[o].expires_at)
             => /\ req'[r].pc = "done"
                /\ req'[r].reason = "AttemptsExhausted"]_vars

\* C11 witness: the third wrong code in a row was answered IncorrectCode with
\* nothing remaining
C11_Witness ==
    \E r \in Reqs :
        /\ req[r].pc = "done"
        /\ req[r].reason = "IncorrectCode"
        /\ req[r].remaining = 0
        /\ hist[req[r].otp].wrong = OTP_MAX_ATTEMPTS
        /\ otps[req[r].otp].attempts = OTP_MAX_ATTEMPTS

\* C12: a verify_otp call that passes the guards with a code different from
\* the stored one raises attempts by exactly one, leaves verified as it is,
\* and is answered IncorrectCode with remaining = OTP_MAX_ATTEMPTS minus the
\* attempts value it wrote, never negative.
C12_WrongCodeChargesOne ==
    [][\A r \in Reqs :
          LET o == req[r].otp
          IN /\ (req[r].pc = "v_incr" /\ req'[r].pc = "v_cmp"
                    /\ req[r].code # otps[o].code)
                => /\ otps'[o].attempts = otps[o].attempts + 1
                   /\ otps'[o].verified = otps[o].verified
             /\ (req[r].pc = "v_cmp" /\ req'[r].pc # "v_cmp"
                    /\ req[r].code # otps[o].code)
                => /\ req'[r].pc = "done"
                   /\ req'[r].reason = "IncorrectCode"
                   /\ req'[r].remaining
                         = OTP_MAX_ATTEMPTS - (req[r].attempts + 1)
                   /\ req'[r].remaining >= 0
                   /\ otps' = otps]_vars

\* C13: once a challenge has verified = true, no later operation changes any
\* of its fields: verified never returns to false, and attempts, code,
\* expires_at and the provider stay as they were.
C13_VerifiedIsFrozen ==
    [][\A o \in 1..Len(otps) : otps[o].verified => otps'[o] = otps[o]]_vars

\* C14: create_otp adds one challenge with attempts = 0, verified = false and
\* expires_at = now + OTP_EXPIRY_MINUTES (after created_at) and changes
\* nothing else: the existing challenges are as they were, an older challenge
\* of the same student still passes the guards of verify_otp on its own
\* fields, and no project, student or assignment changes.
C14_IssueAddsOneChallenge ==
    [][/\ Len(otps') # Len(otps)
          => /\ Len(otps') = Len(otps) + 1
             /\ LET n == otps'[Len(otps')]
                IN /\ n.attempts = 0
                   /\ n.verified = FALSE
                   /\ n.created_at = now
                   /\ n.expires_at = now + OTP_EXPIRY_MINUTES
                   /\ n.expires_at > n.created_at
             /\ \A o \in 1..Len(otps) : otps'[o] = otps[o]
             /\ UNCHANGED <<has_project, assigned_count, max_assignments,
                            assignments>>
       /\ \A r \in Reqs : \A o \in 1..Len(otps) :
             (/\ VerifyCalled(r, o)
              /\ \E o2 \in (o + 1)..Len(otps) :
                    otps[o2].student_id = otps[o].student_id
              /\ ~otps[o].verified
              /\ now <= otps[o].expires_at
              /\ otps[o].attempts < OTP_MAX_ATTEMPTS)
             => req'[r].pc = "v_incr"]_vars

\* C14 witness: a student has two challenges, the newer one fresh, and the
\* older one has been verified
C14_Witness ==
    \E o \in 1..Len(otps) : \E o2 \in (o + 1)..Len(otps) :
        /\ otps[o2].student_id = otps[o].student_id
        /\ otps[o].verified
        /\ otps[o2].attempts = 0
        /\ ~otps[o2].verified
        /\ otps[o2].expires_at > otps[o2].created_at

\* C15: tier-first allocation: a successful assign_project_to_student made
\* while some project has assigned_count = 0 selects a project whose
\* assigned_count is 0; a project with assigned_count = 1 is selected only
\* when no project has assigned_count = 0.
C15_TierFirst ==
    [][\A r \in Reqs :
          (req[r].pc = "a_commit" /\ req'[r].pc = "done"
              /\ ProjectsWithCount(0) # {})
          => assigned_count[req'[r].project] = 0]_vars

AllFull == \A p \in Projects : assigned_count[p] = max_assignments[p]

\* C16: for an existing student without a project,
\* assign_project_to_student fails with ExhaustedCapacity if and only if
\* every project has assigned_count = max_assignments; while some project
\* has assigned_count < max_assignments the call succeeds.
C16_ExhaustedIffAllFull ==
    [][\A r \in Reqs :
          /\ (req[r].pc = "a_tier0" /\ req'[r].pc # "a_tier0")
             => /\ req'[r].pc \in {"a_tier1", "a_commit"}
                /\ ProjectsWithCount(0) # {} => req'[r].pc = "a_commit"
          /\ (req[r].pc = "a_tier1" /\ req'[r].pc # "a_tier1")
             => /\ req'[r].pc \in {"done", "a_commit"}
                /\ req'[r].pc = "done" <=> AllFull
                /\ req'[r].pc = "done"
                      => req'[r].reason = "ExhaustedCapacity"
          /\ (req[r].pc = "a_commit" /\ req'[r].pc # "a_commit")
             => /\ req'[r].pc = "done"
                /\ req'[r].reason = "ok"
                /\ req'[r].project \in Projects
          /\ (Answered(r) /\ req'[r].reason = "ExhaustedCapacity")
             => AllFull]_vars

\* C16 witness: a call was answered ExhaustedCapacity, every project being
\* full and a student still without a project
C16_Witness ==
    \E r \in Reqs :
        /\ req[r].pc = "done"
        /\ req[r].reason = "ExhaustedCapacity"
        /\ \E s \in Students : ~has_project[s]
        /\ AllFull

AllocFailures == {"SubjectNotFound", "AlreadyAllocated", "ExhaustedCapacity"}

\* C17: when assign_project_to_student fails (SubjectNotFound,
\* AlreadyAllocated or ExhaustedCapacity, three distinct answers), it has
\* written nothing: since the call was made no project's assigned_count has
\* changed, no Assignment record has been created and no student's
\* has_project has changed, unless another call did it.
C17_FailureWritesNothing ==
    [][/\ \A r \in Reqs :
             (Answered(r) /\ req'[r].reason \in AllocFailures)
             => UNCHANGED <<assigned_count, assignments, has_project>>
       /\ (\A r \in Reqs : req'[r].pc # "done" \/ req'[r].reason # "ok"
                             \/ req[r].pc = "done")
             => UNCHANGED <<assigned_count, assignments, has_project>>]_vars

\* C17 witness: one call was answered ExhaustedCapacity and another
\* AlreadyAllocated
C17_Witness ==
    \E r, q \in Reqs :
        /\ req[r].pc = "done"
        /\ req[r].reason = "ExhaustedCapacity"
        /\ req[q].pc = "done"
        /\ req[q].reason = "AlreadyAllocated"

\* the breaker method op is called on the breaker of provider p in this step
Called(op, p) ==
    /\ svc'.call.n = svc.call.n + 1
    /\ svc'.call.op = op
    /\ svc'.call.provider = p

\* C18: a closed breaker becomes open exactly when
\* DEFAULT_CIRCUIT_THRESHOLD failures have been recorded with no success
\* recorded in between; a recorded success resets the failure counter, so
\* failures recorded before it never contribute.
C18_OpensAtThresholdInARow ==
    [][\A p \in Providers :
          /\ svc.cb[p].state = "closed"
             => /\ svc.cbhist[p].streak < DEFAULT_CIRCUIT_THRESHOLD
                /\ svc'.cb[p].state \in {"closed", "open"}
                /\ svc'.cb[p].state = "open"
                      <=> /\ Called("record_failure", p)
                          /\ svc'.cbhist[p].streak = DEFAULT_CIRCUIT_THRESHOLD
          /\ Called("record_success", p) => svc'.cb[p].failure_count = 0]_vars

\* C18 witness: the breaker is closed although DEFAULT_CIRCUIT_THRESHOLD
\* failures have been recorded in all, a success having come in between
C18_Witness ==
    \E p \in Providers :
        /\ svc.cb[p].state = "closed"
        /\ svc.cbhist[p].failures >= DEFAULT_CIRCUIT_THRESHOLD
        /\ svc.cbhist[p].streak > 0

\* C19: can_attempt returns false if and only if the breaker is open and
\* now - last_failure_time is not greater than the cooldown; in every other
\* case it returns true.
C19_CanAttemptResult ==
    [][\A p \in Providers :
          Called("can_attempt", p)
          => (svc'.call.ret = FALSE
                <=> /\ svc.cb[p].state = "open"
                    /\ svc.mono - svc.cb[p].last_failure_time
                          <= DEFAULT_CIRCUIT_TIMEOUT_SECONDS)]_vars

\* C19 witness: can_attempt has just returned false on an open breaker whose
\* cooldown ends at this very instant
C19_Witness ==
    \E p \in Providers :
        /\ svc.call.op = "can_attempt"
        /\ svc.call.provider = p
        /\ svc.call.ret = FALSE
        /\ svc.cb[p].state = "open"
        /\ svc.mono - svc.cb[p].last_failure_time
              = DEFAULT_CIRCUIT_TIMEOUT_SECONDS

\* C20: after DEFAULT_CIRCUIT_THRESHOLD failures in a row can_attempt returns
\* false until the cooldown has elapsed, then returns true exactly once (a
\* single half-open probe: a further can_attempt call made before the outcome
\* of that probe is recorded returns false), and a success recorded then
\* closes the breaker.
C20_SingleProbe ==
    [][\A p \in Providers :
          /\ (Called("can_attempt", p) /\ svc.cb[p].state = "open"
                 /\ svc.mono - svc.cb[p].last_failure_time
                       <= DEFAULT_CIRCUIT_TIMEOUT_SECONDS)
             => svc'.call.ret = FALSE
          /\ (Called("can_attempt", p) /\ svc.cb[p].state = "half-open"
                 /\ svc.cbhist[p].probing)
             => svc'.call.ret = FALSE
          /\ (Called("record_success", p) /\ svc.cb[p].state = "half-open")
             => svc'.cb[p].state = "closed"]_vars

\* C21: from half-open the next recorded success closes the breaker and the
\* next recorded failure opens it again, in every reachable half-open state,
\* also one reached after a success of an attempt started before the breaker
\* opened was recorded while it was open.
C21_HalfOpenOutcome ==
    [][\A p \in Providers :
          svc.cb[p].state = "half-open"
          => /\ Called("record_success", p) => svc'.cb[p].state = "closed"
             /\ Called("record_failure", p) => svc'.cb[p].state = "open"]_vars

\* the number of calls that returned True with a timestamp within lo..hi
AdmittedWithin(lo, hi) ==
    Cardinality({i \in 1..Len(svc.rl.admits) :
                    lo <= svc.rl.admits[i] /\ svc.rl.admits[i] <= hi})

\* c's call to allow passes the lock in this step
Allowed(c) == svc.rl.callers[c].pc = "read" /\ svc'.rl.callers[c].pc = "idle"

\* C22: in any interval of length DEFAULT_RATE_LIMIT_WINDOW_SECONDS at most
\* DEFAULT_RATE_LIMIT_REQUESTS calls to allow that fall in it return True,
\* under any interleaving of parallel callers; and a call made when that many
\* admissions lie within the window that ends at the call returns False.
C22_CapPerWindow ==
    [][/\ \A i \in 1..Len(svc'.rl.admits) :
             AdmittedWithin(svc.rl.admits[i]
                                - DEFAULT_RATE_LIMIT_WINDOW_SECONDS,
                            svc.rl.admits[i])' <= DEFAULT_RATE_LIMIT_REQUESTS
       /\ \A c \in Reqs :
             (Allowed(c)
                 /\ AdmittedWithin(svc.rl.callers[c].now
                                       - DEFAULT_RATE_LIMIT_WINDOW_SECONDS,
                                   svc.rl.callers[c].now)
                      >= DEFAULT_RATE_LIMIT_REQUESTS)
             => svc'.rl.callers[c].ret = FALSE]_vars


\* C23: on either channel, a send has made a provider network call only if
\* the rate limiter admitted the send and the circuit breaker of that
\* provider let it through
C23_NoCallUnlessAdmitted ==
    \A c \in Reqs :
        \A i \in 1..Len(svc.sends[c].contacts) :
            /\ svc.sends[c].admitted
            /\ svc.sends[c].contacts[i] \in svc.sends[c].permitted


\* the network calls a send has made to provider p
ContactsOf(e, p) == Len(SelectSeq(e.contacts, LAMBDA q : q = p))

\* the SMS sends that the rate limiter admitted and that have returned
AdmittedDone(c) ==
    /\ svc.sends[c].pc = "done"
    /\ svc.sends[c].channel = "sms"
    /\ svc.sends[c].admitted

AttemptFailed(c) ==
    /\ svc.sends[c].pc = "net"
    /\ svc.sends[c].channel = "sms"
    /\ svc'.sends[c] # svc.sends[c]
    /\ ~(svc'.sends[c].success
           /\ svc'.sends[c].provider_used = svc.sends[c].provider)

AttemptsBounded ==
    \A c \in Reqs :
        LET e == svc.sends[c]
        IN e.channel = "sms" =>
              /\ \A p \in Providers : ContactsOf(e, p) <= svc.max_retries
              /\ {e.contacts[i] : i \in 1..Len(e.contacts)} \subseteq Providers
              /\ Len(e.contacts) <= 2 * svc.max_retries
              /\ e.success =>
                    /\ e.pc = "done"
                    /\ e.contacts[Len(e.contacts)] = e.provider_used

\* a send that has succeeded makes no call any more
NoCallAfterSuccess ==
    \A c \in Reqs :
        svc.sends[c].success =>
            \/ svc'.sends[c].contacts = svc.sends[c].contacts
            \/ svc'.sends[c] = IdleSend

\* C26: every send terminates, having made at most max_retries attempts on
\* the primary provider and at most max_retries on the fallback, having
\* contacted at most two providers, and no provider after the first
\* successful attempt
C26_SendTerminates ==
    /\ []AttemptsBounded
    /\ [][NoCallAfterSuccess]_vars
    /\ \A c \in Reqs : (svc.sends[c].pc = "net") ~> (svc.sends[c].pc = "done")

\* both providers failed two attempts each
C26_Witness ==
    \E c \in Reqs :
        /\ AdmittedDone(c)
        /\ svc.max_retries = 2
        /\ ~svc.sends[c].success
        /\ \A p \in Providers : ContactsOf(svc.sends[c], p) = 2


\* the email sends that have started
EmailSend(c) == svc.sends[c].channel = "email"

\* C27: the list of transport modes of an email send is the implicit TLS
\* mode alone for port 465, and for any other port the configured mode, then
\* STARTTLS, then implicit TLS, with no entry twice; the modes are tried in
\* that order, none after the first success, and the send fails, with the
\* error of the last mode, only if every mode has failed
C27_SmtpModesInOrder ==
    \A c \in Reqs : EmailSend(c) =>
        LET e == svc.sends[c]
            use_tls == svc.settings.SMTP_USE_TLS
        IN /\ e.modes = IF svc.settings.SMTP_PORT = 465
                           THEN <<[use_tls |-> TRUE, start_tls |-> "False"]>>
                           ELSE <<[use_tls |-> use_tls, start_tls |-> "None"],
                                  [use_tls |-> FALSE, start_tls |-> "True"],
                                  [use_tls |-> TRUE, start_tls |-> "False"]>>
           /\ \A i, j \in 1..Len(e.modes) : e.modes[i] = e.modes[j] => i = j
           /\ Len(e.tried) \in 1..Len(e.modes)
           /\ e.tried = SubSeq(e.modes, 1, Len(e.tried))
           /\ e.success => (e.pc = "done" /\ e.error = 0)
           /\ (e.pc = "done" /\ ~e.success) =>
                 (e.tried = e.modes /\ e.error = Len(e.modes))
           /\ e.pc = "net" => e.last_error = Len(e.tried) - 1

\* on another port than 465 all three modes failed, one after the other
C27_Witness ==
    \E c \in Reqs :
        /\ EmailSend(c)
        /\ svc.settings.SMTP_PORT # 465
        /\ svc.sends[c].pc = "done"
        /\ ~svc.sends[c].success
        /\ Len(svc.sends[c].tried) = 3


\* ------------------------------------- verify_otp_endpoint, with the audit
\* the HTTP status verify_otp_endpoint answers with, from the result of
\* verify_otp and assign_project_to_student and from whether the write of
\* log_activity went through (sink_ok).  log_activity has no handler around
\* its db.commit(): what it raises reaches the except Exception of the
\* endpoint, which answers 500.  Only an unknown otp_id is answered without
\* an audit write
EndpointStatus(reason, sink_ok) ==
    IF reason = "NotFound" THEN 400
    ELSE IF ~sink_ok THEN 500
    ELSE IF reason = "ok" THEN 200
    ELSE 400

\* verify_otp_endpoint after its service calls: the audit write, then the
\* answer
EndpointAnswer(r, sink_ok) ==
    /\ req[r].pc = "done"
    /\ req[r].caller = "endpoint"
    /\ req[r].status = 0
    /\ req' = [req EXCEPT ![r].status = EndpointStatus(req[r].reason, sink_ok)]
    /\ UNCHANGED <<svc, now, otps, has_project, assigned_count, max_assignments,
                   assignments, budget, hist>>

\* the answer went out; the Session is closed
EndpointRespond(r) ==
    /\ req[r].status # 0
    /\ req' = [req EXCEPT ![r] = IdleReq]
    /\ UNCHANGED <<svc, now, otps, has_project, assigned_count, max_assignments,
                   assignments, budget, hist>>

NextAudit ==
    \/ \E s \in Students, c \in EndpointCodes : Issue(s, c)
    \/ \E r \in Reqs, id \in 1..MaxOtps, c \in Codes :
          VerifyLoad(r, id, c, "endpoint")
    \/ \E r \in Reqs : VerifyIncrement(r)
    \/ \E r \in Reqs : VerifyCompare(r)
    \/ \E r \in Reqs : AllocStudent(r)
    \/ \E r \in Reqs : AllocTier0(r)
    \/ \E r \in Reqs : AllocTier1(r)
    \/ \E r \in Reqs : AllocCommit(r)
    \/ \E r \in Reqs, sink_ok \in BOOLEAN : EndpointAnswer(r, sink_ok)
    \/ \E r \in Reqs : EndpointRespond(r)

SpecAudit == Init /\ [][NextAudit]_vars

\* C28: a failing audit write does not change the answer of the calling
\* operation: verify_otp_endpoint answers with success when verification and
\* allocation have succeeded, and with the refusal of the service otherwise
C28_AuditFailureSwallowed ==
    \A r \in Reqs :
        req[r].status # 0 =>
            req[r].status = IF req[r].reason = "ok" THEN 200 ELSE 400


\* --------------------------------- two services that differ in the metrics
\* the metrics after one more send, delivered by mtarget at its last attempt
\* (SMSMetrics is never reset, while the rate limiter forgets a send after
\* its window and a breaker forgets its failures at a success)
MetricsAfterEarlierSend(m, mr) ==
    metrics_record_success(
        IF mr > 1 THEN metrics_record_retry(m) ELSE m, "mtarget")

\* what dispatch is made of: everything of the service but the metrics
Dispatch(s) ==
    [mono |-> s.mono, cb |-> s.cb, timestamps |-> s.rl.timestamps,
     max_retries |-> s.max_retries, sends |-> s.sends]

\* the same send starts on both services
TwinStart(c, is_cm) ==
    /\ svc.sends[c].pc = "idle"
    /\ Started(svc) < MaxSends
    /\ svc' = [AfterSendStart(svc, c, is_cm) EXCEPT
                  !.rl.calls = @ + 1,
                  !.twin = AfterSendStart(svc.twin, c, is_cm)]
    /\ UNCHANGED <<now, otps, has_project, assigned_count, max_assignments,
                   assignments, req, budget, hist>>

\* the provider gives both services the same outcome
TwinOutcome(c, ok) ==
    /\ svc.sends[c].pc = "net"
    /\ svc' = [AfterSendOutcome(svc, c, ok) EXCEPT
                  !.twin = IF svc.twin.sends[c].pc = "net"
                             THEN AfterSendOutcome(svc.twin, c, ok)
                             ELSE svc.twin]
    /\ UNCHANGED <<now, otps, has_project, assigned_count, max_assignments,
                   assignments, req, budget, hist>>

TwinReturn(c) ==
    /\ svc.sends[c].pc = "done"
    /\ svc' = [svc EXCEPT !.sends[c] = IdleSend,
                          !.twin.sends[c] = IdleSend]
    /\ UNCHANGED <<now, otps, has_project, assigned_count, max_assignments,
                   assignments, req, budget, hist>>

TwinTick ==
    /\ svc.mono < SendHorizon
    /\ svc' = [svc EXCEPT !.mono = SendHorizon, !.twin.mono = SendHorizon]
    /\ UNCHANGED <<now, otps, has_project, assigned_count, max_assignments,
                   assignments, req, budget, hist>>

\* two services in the same breaker and rate limiter state, the second with
\* the metrics of one earlier send more
InitTwin ==
    /\ Database({1}, {1})
    /\ budget = [issues |-> 0, calls |-> 0]
    /\ \E mr \in {DEFAULT_MAX_RETRIES, DEFAULT_MAX_RETRIES + 1} :
       \E h \in {<<0, 0>>,
                 <<0, DEFAULT_CIRCUIT_THRESHOLD - 1>>,
                 <<DEFAULT_RATE_LIMIT_REQUESTS - DEFAULT_CIRCUIT_THRESHOLD,
                   DEFAULT_CIRCUIT_THRESHOLD - 1>>} :
          LET s == ServiceAfterSends(h[1], h[2], mr)
          IN svc = [s EXCEPT !.twin =
                       [s EXCEPT !.metrics =
                           MetricsAfterEarlierSend(s.metrics, mr)]]

NextTwin ==
    \/ TwinTick
    \/ \E c \in Reqs, is_cm \in BOOLEAN : TwinStart(c, is_cm)
    \/ \E c \in Reqs, ok \in BOOLEAN : TwinOutcome(c, ok)
    \/ \E c \in Reqs : TwinReturn(c)

SpecTwin == InitTwin /\ [][NextTwin]_vars

\* C29: two services that start in the same circuit-breaker and rate-limiter
\* state and see the same provider outcomes, but differ in the metrics
\* counters, make the same provider calls in the same order and return the
\* same results
C29_MetricsDoNotSteer == Dispatch(svc) = Dispatch(svc.twin)

\* a send has retried, fallen back and returned on both services, whose
\* metrics differ
C29_Witness ==
    \E c \in Reqs :
        /\ svc.sends[c].pc = "done"
        /\ Len(svc.sends[c].contacts) >= 3
        /\ Len(svc.sends[c].ran) = 2
        /\ svc.metrics # svc.twin.metrics


\* ------------------------------------------------------------- startup
\* settings = Settings(): pydantic reads each field from the environment and
\* converts it to the annotated type; OTP_LENGTH, OTP_EXPIRY_MINUTES and
\* OTP_MAX_ATTEMPTS are annotated int, with no Field constraint and no
\* validator, so every integer is accepted.  The thresholds of the SMS
\* service are module constants that the environment cannot set, and
\* SMSService.__init__ checks none of them
SettingsAccepts(env) == \A k \in DOMAIN env : env[k].is_int

\* the process imports app.config: it serves, or ends on the ValidationError
Startup ==
    /\ svc.proc.state = "starting"
    /\ svc' = [svc EXCEPT !.proc.state =
                  IF SettingsAccepts(svc.proc.env) THEN "serving"
                  ELSE "config_error"]
    /\ UNCHANGED <<now, otps, has_project, assigned_count, max_assignments,
                   assignments, req, budget, hist>>

MaxServed == 2   \* requests served in one run

\* the running process answers a request
Serve ==
    /\ svc.proc.state = "serving"
    /\ svc.proc.served < MaxServed
    /\ svc' = [svc EXCEPT !.proc.served = @ + 1]
    /\ UNCHANGED <<now, otps, has_project, assigned_count, max_assignments,
                   assignments, req, budget, hist>>

\* what the environment may hold for one numeric setting whose default is d
EnvValues(d) == {EnvInt(-1), EnvInt(0), EnvInt(d), NotAnInt}

InitStartup ==
    /\ Database({1}, {1})
    /\ budget = [issues |-> 0, calls |-> 0]
    /\ \E l \in EnvValues(OTP_LENGTH), e \in EnvValues(OTP_EXPIRY_MINUTES),
          a \in EnvValues(OTP_MAX_ATTEMPTS) :
          svc = [NewService EXCEPT !.proc =
                    [state |-> "starting",
                     env |-> [OTP_LENGTH |-> l, OTP_EXPIRY_MINUTES |-> e,
                              OTP_MAX_ATTEMPTS |-> a],
                     served |-> 0]]

NextStartup == Startup \/ Serve

SpecStartup == InitStartup /\ [][NextStartup]_vars

\* C30: once started with a numeric setting that is zero or negative, the
\* process is in the configuration-error state and has served no request
C30_NonPositiveRejected ==
    (/\ svc.proc.state # "starting"
     /\ \E k \in DOMAIN svc.proc.env :
           svc.proc.env[k].is_int /\ svc.proc.env[k].v <= 0)
        => (svc.proc.state = "config_error" /\ svc.proc.served = 0)


\* every Assignment record belongs to a student who owns a verified challenge
AssignedAreVerified ==
    \A i \in 1..Len(assignments) :
        \E o \in 1..Len(otps) :
            /\ otps[o].student_id = assignments[i].student_id
            /\ otps[o].verified

\* request r calls assign_project_to_student in this step
AllocateCalled(r) == req[r].pc # "a_student" /\ req'[r].pc = "a_student"

\* C31: allocation is gated by the OTP: every Assignment record belongs to a
\* student who owns a challenge with verified = true, and the endpoint calls
\* assign_project_to_student only in the step in which its verify_otp call
\* succeeded, once, for the student who owns the verified challenge
C31_AllocationGatedByOtp ==
    /\ []AssignedAreVerified
    /\ [][\A r \in Reqs : AllocateCalled(r) =>
             /\ req[r].pc = "v_cmp"
             /\ otps'[req[r].otp].verified
             /\ hist'[req[r].otp].ok = hist[req[r].otp].ok + 1
             /\ req'[r].student = otps[req[r].otp].student_id]_vars

\* an assignment was made, for the owner of a verified challenge
C31_Witness ==
    /\ Len(assignments) > 0
    /\ \E o \in 1..Len(otps) :
          otps[o].verified /\ otps[o].student_id = assignments[1].student_id


\* C32: a circuit breaker is open or half-open only if its failure_count is
\* at least the threshold, also while several sends to its provider are in
\* flight at once
C32_OpenOnlyAtThreshold ==
    \A p \in Providers :
        svc.cb[p].state \in {"open", "half-open"}
            => svc.cb[p].failure_count >= DEFAULT_CIRCUIT_THRESHOLD


\* ------------------------------------------- a provider that has recovered
\* a breaker that opened at time 0: at the threshold, after one failure more
\* of a send that was in flight, or with its counter reset by the success of
\* one
OpenedBreaker(n) ==
    [state |-> "open", failure_count |-> n, last_failure_time |-> 0]

\* the failures recorded on a breaker before the run: none on a new one, at
\* least the threshold on an opened one
OpenedHist(b) ==
    [streak |-> b.failure_count,
     failures |-> IF b.state = "closed" THEN 0
                  ELSE IF b.failure_count > DEFAULT_CIRCUIT_THRESHOLD
                         THEN b.failure_count
                         ELSE DEFAULT_CIRCUIT_THRESHOLD,
     probing |-> FALSE]

\* a send asks the breaker of p (_send_with_retries line 424) and, let
\* through, awaits the provider; a blocked send goes on without it
RecoveredStart(c, p) ==
    /\ svc.sends[c].pc = "idle"
    /\ LET a == can_attempt(svc.cb[p], svc.mono)
       IN svc' = [AfterCanAttempt(svc, p, a) EXCEPT
                     !.sends[c] = IF a.ret
                                    THEN [IdleSend EXCEPT !.pc = "net",
                                                          !.provider = p]
                                    ELSE IdleSend]
    /\ UNCHANGED <<now, otps, has_project, assigned_count, max_assignments,
                   assignments, req, budget, hist>>

\* the recovered provider delivers: _send_with_retries line 451-452
RecoveredOutcome(c) ==
    /\ svc.sends[c].pc = "net"
    /\ svc' = [AfterRecordSuccess(svc, svc.sends[c].provider) EXCEPT
                  !.sends[c].pc = "done", !.sends[c].success = TRUE,
                  !.sends[c].provider_used = svc.sends[c].provider]
    /\ UNCHANGED <<now, otps, has_project, assigned_count, max_assignments,
                   assignments, req, budget, hist>>

InitRecovered ==
    /\ Database({1}, {1})
    /\ budget = [issues |-> 0, calls |-> 0]
    /\ \E b \in [Providers ->
                   {NewCircuitBreaker, OpenedBreaker(0),
                    OpenedBreaker(DEFAULT_CIRCUIT_THRESHOLD),
                    OpenedBreaker(DEFAULT_CIRCUIT_THRESHOLD + 1)}] :
          svc = [NewService EXCEPT
                    !.cb = b,
                    !.cbhist = [p \in Providers |-> OpenedHist(b[p])]]

NextRecovered ==
    \/ MonoTick
    \/ \E c \in Reqs, p \in Providers : RecoveredStart(c, p)
    \/ \E c \in Reqs : RecoveredOutcome(c)
    \/ \E c \in Reqs : SendReturn(c)

SpecRecovered == InitRecovered /\ [][NextRecovered]_vars

\* time passes, each provider keeps being asked for, and every call to a
\* provider returns
FairSpecRecovered ==
    /\ SpecRecovered
    /\ WF_vars(MonoTick)
    /\ \A p \in Providers : SF_vars(\E c \in Reqs : RecoveredStart(c, p))
    /\ \A c \in Reqs : WF_vars(RecoveredOutcome(c)) /\ WF_vars(SendReturn(c))

\* the cooldown of the breaker of p has elapsed
CooldownElapsed(p) ==
    svc.mono - svc.cb[p].last_failure_time > DEFAULT_CIRCUIT_TIMEOUT_SECONDS

NewerThanWindow(timestamps, t) ==
    SelectSeq(timestamps,
              LAMBDA ts : ~(ts <= t - DEFAULT_RATE_LIMIT_WINDOW_SECONDS))

\* C34: a call of allow with clock value now first evicts every timestamp
\* that is not newer than now - window; if it returns false it records no
\* timestamp, if it returns true it records exactly one, its own; and the
\* stored list never holds more than DEFAULT_RATE_LIMIT_REQUESTS entries
C34_AllowFrame ==
    /\ [](Len(svc.rl.timestamps) <= DEFAULT_RATE_LIMIT_REQUESTS)
    /\ [][\A c \in Reqs : Allowed(c) =>
             LET t == svc.rl.callers[c].now
                 kept == NewerThanWindow(svc.rl.timestamps, t)
             IN /\ ~svc'.rl.callers[c].ret => svc'.rl.timestamps = kept
                /\ svc'.rl.callers[c].ret
                      => svc'.rl.timestamps = Append(kept, t)]_vars

\* a call has evicted the timestamps of a window ago and recorded its own
C34_Witness ==
    /\ svc.rl.timestamps = <<svc.mono>>
    /\ Len(svc.rl.admits) >= DEFAULT_RATE_LIMIT_REQUESTS


\* ------------------------------------------------------------- SMS routing
\* destinations, as sequences of characters
PhoneIntl == <<"+", "2", "3", "7", "6", "1", "2", "3", "4", "5", "6", "7", "8">>   \* international form
PhoneDoubleZero == <<"0", "0", "2", "3", "7", "6", "1", "2", "3", "4", "5", "6", "7", "8">>   \* 00 prefix
PhoneCountry == <<"2", "3", "7", "6", "1", "2", "3", "4", "5", "6", "7", "8">>   \* country code without +
PhoneLocal == <<"6", " ", "1", "2", "-", "3", "4", " ", "5", "6", " ", "7", "8">>   \* local form, nine digits with separators
PhoneFrance == <<"+", "3", "3", "6", "1", "2", "3", "4", "5", "6", "7", "8">>   \* a French number
PhoneShort == <<"6", "1", "2", "3", "4", "5", "6", "7">>   \* starts with 6 but has eight digits

Phones == {PhoneIntl, PhoneDoubleZero, PhoneCountry, PhoneLocal, PhoneFrance,
           PhoneShort}

\* str.strip() for spaces, then .replace(" ", "").replace("-", "")
Clean(phone) == SelectSeq(phone, LAMBDA ch : ch # " " /\ ch # "-")

\* str.startswith
StartsWith(str, prefix) ==
    /\ Len(str) >= Len(prefix)
    /\ SubSeq(str, 1, Len(prefix)) = prefix

\* SMSService._is_cameroon_number
_is_cameroon_number(phone) ==
    LET clean == Clean(phone)
    IN \/ StartsWith(clean, <<"+", "2", "3", "7">>)
       \/ StartsWith(clean, <<"0", "0", "2", "3", "7">>)
       \/ StartsWith(clean, <<"2", "3", "7">>)
       \/ (StartsWith(clean, <<"6">>) /\ Len(clean) = 9)

\* a request calls send_otp_sms(phone, otp_code)
SendTo(c, phone) ==
    /\ svc.sends[c].pc = "idle"
    /\ Started(svc) < MaxSends
    /\ svc' = [AfterSendStart(svc, c, _is_cameroon_number(phone)) EXCEPT
                  !.rl.calls = @ + 1, !.sends[c].phone = phone]
    /\ UNCHANGED <<now, otps, has_project, assigned_count, max_assignments,
                   assignments, req, budget, hist>>

\* sends to any destination, on a fresh service
InitRouting ==
    /\ Database({1}, {1})
    /\ budget = [issues |-> 0, calls |-> 0]
    /\ Service

NextRouting ==
    \/ \E c \in Reqs, phone \in Phones : SendTo(c, phone)
    \/ \E c \in Reqs, ok \in BOOLEAN : SendOutcome(c, ok)
    \/ \E c \in Reqs : SendReturn(c)

SpecRouting == InitRouting /\ [][NextRouting]_vars

\* the destinations that the patterns of a Cameroon number match
CameroonPhones == {PhoneIntl, PhoneDoubleZero, PhoneCountry, PhoneLocal}

CodeTexts ==
    << <<>>,
       <<"1", "2", "a", "4", "5", "6">>,
       <<"1", "2", "3", "4", "5">>,
       <<"1", "2", "3", "4", "5", "6">>,
       <<"6", "5", "4", "3", "2", "1">>,
       <<"1", "2", "3", "4">> >>

\* string.digits
Digits == {"0", "1", "2", "3", "4", "5", "6", "7", "8", "9"}

\* str.isdigit for ASCII text: not empty and every character a digit
isdigit(text) == Len(text) > 0 /\ \A i \in 1..Len(text) : text[i] \in Digits

\* generate_otp_code: random digits, as many as the length asks for
generate_otp_code(length) ==
    {k \in DOMAIN CodeTexts :
        isdigit(CodeTexts[k]) /\ Len(CodeTexts[k]) = length}

\* the length verify_otp_endpoint compares the code with
VerifyCodeLength == 6

\* verify_otp_endpoint line 206: the code is refused when it is empty, not
\* all digits, or not six characters long
CodeRefused(text) ==
    text = <<>> \/ ~isdigit(text) \/ Len(text) # VerifyCodeLength

\* values of OTP_LENGTH the environment may set
OtpLengths == {OTP_LENGTH, 4}

\* request_project up to create_otp, the code drawn by generate_otp_code with
\* the configured length
IssueGenerated(s) ==
    \E c \in generate_otp_code(svc.settings.OTP_LENGTH) : Issue(s, c)

\* verify_otp_endpoint line 204-210: the reference and the code are checked
\* and refused with HTTP 400, before verify_otp is called
EndpointVerify(r, id, k) ==
    IF id <= 0 \/ CodeRefused(CodeTexts[k])
      THEN /\ FirstFree(r)
           /\ budget.calls > 0
           /\ budget' = [budget EXCEPT !.calls = @ - 1]
           /\ req' = [req EXCEPT ![r] =
                  [IdleReq EXCEPT !.pc = "done", !.otp = id, !.code = k,
                                  !.caller = "endpoint",
                                  !.reason = IF id <= 0
                                               THEN "InvalidReference"
                                               ELSE "InvalidCode",
                                  !.status = 400]]
           /\ UNCHANGED <<svc, now, otps, has_project, assigned_count,
                          max_assignments, assignments, hist>>
      ELSE VerifyLoad(r, id, k, "endpoint")

InitCodeCheck ==
    /\ Database({1, 2}, {1})
    /\ \E n \in OtpLengths :
          svc = [NewService EXCEPT !.settings.OTP_LENGTH = n]
    /\ budget = [issues |-> MaxVerifyOtps, calls |-> MaxCalls]

NextCodeCheck ==
    \/ \E s \in Students : IssueGenerated(s)
    \/ \E r \in Reqs, id \in 0..MaxVerifyOtps, k \in DOMAIN CodeTexts :
          EndpointVerify(r, id, k)
    \/ \E r \in Reqs : VerifyIncrement(r)
    \/ \E r \in Reqs : VerifyCompare(r)
    \/ \E r \in Reqs : AllocStudent(r)
    \/ \E r \in Reqs : AllocTier0(r)
    \/ \E r \in Reqs : AllocTier1(r)
    \/ \E r \in Reqs : AllocCommit(r)
    \/ \E r \in Reqs : Respond(r)

SpecCodeCheck == InitCodeCheck /\ [][NextCodeCheck]_vars

\* a code that is empty, not numeric, or not of the configured length
Malformed(text, length) ==
    text = <<>> \/ ~isdigit(text) \/ Len(text) # length

\* C36: a verify-otp request whose code is malformed (empty, non-numeric or
\* not of the configured length) ends as a validation error in the step that
\* receives it, with the challenges left as they were: it never reaches the
\* read of the challenge, the increment of attempts or the write of verified
C36_MalformedRejectedUnread ==
    [][\A r \in Reqs :
          (/\ req[r].pc = "idle"
           /\ req'[r].pc # "idle"
           /\ req'[r].otp > 0
           /\ Malformed(CodeTexts[req'[r].code], svc.settings.OTP_LENGTH))
              => (/\ req'[r].pc = "done"
                  /\ req'[r].reason = "InvalidCode"
                  /\ otps' = otps)]_vars


\* ------------------------------------ request_project, the limit per contact
\* Settings.OTP_CONTACT_MAX_REQUESTS, read at request_project line 124
OTP_CONTACT_MAX_REQUESTS == 1

\* (contact_type, contact_value) pairs after validation and normalisation
Contacts ==
    {<<"sms", "+237612345678">>, <<"email", "student@example.org">>}

\* OTPCode row as create_otp builds it, with the contact columns
NewContactOtp(student_id, code, t, contact) ==
    NewOtp(student_id, code, t)
        @@ [contact_method |-> contact[1], contact_value |-> contact[2]]

\* request_project line 115-122: SELECT count(*) of the rows of one contact
request_count(rows, contact) ==
    Cardinality({i \in 1..Len(rows) :
                    /\ rows[i].contact_method = contact[1]
                    /\ rows[i].contact_value = contact[2]})

\* request_project line 80-139: the student has no project; the rows of the
\* contact are counted, and the request is refused with 429 at the limit
ContactCount(r, s, contact) ==
    /\ FirstFree(r)
    /\ budget.issues > 0
    /\ budget' = [budget EXCEPT !.issues = @ - 1]
    /\ ~has_project[s]
    /\ req' = [req EXCEPT ![r] =
          IF request_count(otps, contact) >= OTP_CONTACT_MAX_REQUESTS
            THEN [IdleReq EXCEPT !.pc = "done", !.caller = "request",
                                 !.student = s, !.contact = contact,
                                 !.reason = "LimitReached", !.status = 429]
            ELSE [IdleReq EXCEPT !.pc = "r_create", !.caller = "request",
                                 !.student = s, !.contact = contact]]
    /\ UNCHANGED <<svc, now, otps, has_project, assigned_count,
                   max_assignments, assignments, hist>>

\* mutant: the row is not written before the delivery is awaited
ContactCreateDeferred(r, c) ==
    /\ req[r].pc = "r_create"
    /\ req' = [req EXCEPT ![r].pc = "r_send", ![r].otp = Len(otps) + 1]
    /\ UNCHANGED <<svc, now, otps, hist, has_project, assigned_count,
                   max_assignments, assignments, budget>>

\* request_project line 141, create_otp line 64-85: the row is inserted and
\* committed; the handler then awaits the delivery
ContactCreate(r, c) ==
    /\ req[r].pc = "r_create"
    /\ otps' = Append(otps, NewContactOtp(req[r].student, c, now,
                                          req[r].contact))
    /\ hist' = Append(hist, NoHist)
    /\ req' = [req EXCEPT ![r].pc = "r_send", ![r].otp = Len(otps) + 1]
    /\ UNCHANGED <<svc, now, has_project, assigned_count, max_assignments,
                   assignments, budget>>

MaxContactRequests == 3  \* request-project requests in one run

InitContact ==
    /\ Database({1, 2}, {1})
    /\ Service
    /\ budget = [issues |-> MaxContactRequests, calls |-> 0]

NextContact ==
    \/ \E r \in Reqs, s \in Students, contact \in Contacts :
          ContactCount(r, s, contact)
    \/ \E r \in Reqs, c \in EndpointCodes : ContactCreate(r, c)
    \/ \E r \in Reqs, result \in SendResults : RequestRecord(r, result)
    \/ \E r \in Reqs : Respond(r)

SpecContact == InitContact /\ [][NextContact]_vars

\* C37: for every (contact method, contact value) pair the number of
\* challenge records is at most OTP_CONTACT_MAX_REQUESTS, also while several
\* request-project requests for the same contact run at once
C37_ContactLimitHolds ==
    \A contact \in Contacts :
        request_count(otps, contact) <= OTP_CONTACT_MAX_REQUESTS


\* ---------------------------- request_project, a delivery that does not arrive
\* request_project for one student, one request per handler slot, the
\* delivery failing or not, in parallel with verify_otp calls made one after
\* another while the clock runs
InitUndelivered ==
    /\ Database({1}, {1})
    /\ Service
    /\ budget = [issues |-> Cardinality(Reqs), calls |-> MaxVerifyOtps]

NextUndelivered ==
    \/ Tick
    \/ \E r \in Reqs, s \in Students, contact \in Contacts :
          ContactCount(r, s, contact)
    \/ \E r \in Reqs, c \in EndpointCodes : ContactCreate(r, c)
    \/ \E r \in Reqs, result \in SendResults : RequestRecord(r, result)
    \/ \E r \in Reqs, id \in 1..Cardinality(Reqs), c \in Codes :
          /\ \A q \in Reqs : req[q].pc \notin {"v_incr", "v_cmp"}
          /\ VerifyLoad(r, id, c, "service")
    \/ \E r \in Reqs : VerifyIncrement(r)
    \/ \E r \in Reqs : VerifyCompare(r)
    \/ \E r \in Reqs : Respond(r)

SpecUndelivered == InitUndelivered /\ [][NextUndelivered]_vars

\* rows of the contact of row o, row o left out
OtherRowsOfContact(o) ==
    {i \in 1..Len(otps) :
        /\ i # o
        /\ otps[i].contact_method = otps[o].contact_method
        /\ otps[i].contact_value = otps[o].contact_value}

\* request r was answered with the delivery error
DeliveryFailed(r) == req[r].pc = "done" /\ req[r].reason = "SendFailed"

\* C38: the challenge is stored before the delivery is awaited. When the
\* delivery fails and the request is answered with an error, the row is there
\* and the failure does not touch it: a row no verification has been charged
\* to is pending (unverified, no attempts, its whole validity period ahead of
\* its creation); a verification with its code that finds it unverified,
\* unexpired and below the attempt limit passes the guards and marks it
\* verified; and a further request for its contact is admitted only if the
\* contact's rows, this one counted, are below OTP_CONTACT_MAX_REQUESTS
C38_UndeliveredChallengeStays ==
    [][\A r \in Reqs :
          /\ (req[r].pc = "r_send" /\ req'[r].pc = "done"
                /\ req'[r].reason = "SendFailed")
                => (/\ req[r].otp \in 1..Len(otps)
                    /\ otps' = otps
                    /\ hist[req[r].otp].charged = 0
                          => (/\ ~otps[req[r].otp].verified
                              /\ otps[req[r].otp].attempts = 0
                              /\ otps[req[r].otp].expires_at =
                                    otps[req[r].otp].created_at
                                        + OTP_EXPIRY_MINUTES))
          /\ DeliveryFailed(r)
                => LET o == req[r].otp
                   IN /\ o \in 1..Len(otps)
                      /\ \A q \in Reqs :
                            (/\ req[q].pc = "idle"
                             /\ req'[q].pc # "idle"
                             /\ req'[q].caller = "service"
                             /\ req'[q].otp = o
                             /\ ~otps[o].verified
                             /\ now <= otps[o].expires_at
                             /\ otps[o].attempts < OTP_MAX_ATTEMPTS)
                                => req'[q].pc = "v_incr"
                      /\ \A q \in Reqs :
                            (/\ req[q].pc = "v_cmp"
                             /\ req'[q].pc # "v_cmp"
                             /\ req[q].otp = o
                             /\ req[q].code = otps[o].code)
                                => otps'[o].verified
                      /\ \A q \in Reqs :
                            (/\ req[q].pc = "idle"
                             /\ req'[q].pc = "r_create"
                             /\ req'[q].contact[1] = otps[o].contact_method
                             /\ req'[q].contact[2] = otps[o].contact_value)
                                => Cardinality(OtherRowsOfContact(o)) + 1
                                      < OTP_CONTACT_MAX_REQUESTS]_vars

\* a request was answered with the delivery error and the challenge it stored
\* has since been verified with its code
C38_Witness ==
    \E r \in Reqs :
        /\ DeliveryFailed(r)
        /\ req[r].otp \in 1..Len(otps)
        /\ otps[req[r].otp].verified
        /\ hist[req[r].otp].ok = 1


\* ------------------------------------------------------------ get_active_otp
\* get_active_otp line 228-233: the filter on one row, at the time of the query
ActiveFilter(verified, expires_at, attempts, t) ==
    /\ ~verified
    /\ expires_at > t
    /\ attempts < OTP_MAX_ATTEMPTS

\* get_active_otp: the rows of the student that pass the filter
ActiveRows(student_id, t) ==
    {o \in 1..Len(otps) :
        /\ otps[o].student_id = student_id
        /\ ActiveFilter(otps[o].verified, otps[o].expires_at,
                        otps[o].attempts, t)}

\* get_active_otp: the most recently created of them, 0 for None
get_active_otp(student_id, t) ==
    IF ActiveRows(student_id, t) = {} THEN 0
    ELSE CHOOSE o \in ActiveRows(student_id, t) :
            \A p \in ActiveRows(student_id, t) : p <= o

\* C39: at every time, a challenge passes the filter of get_active_otp
\* (unverified, unexpired, attempts below the limit) if and only if a
\* verification at that time passes verify_otp's guards, so that the correct
\* code would be accepted, the instant now = expires_at included
C39_ActiveIffVerifiable ==
    \A o \in 1..Len(otps) :
        (o \in ActiveRows(otps[o].student_id, now))
            <=> (VerifyGuardResult(otps[o].verified, otps[o].expires_at,
                                   otps[o].attempts, now) = "pass")


\* ------------------------------------------------------------ the metrics
\* the sum of a per-provider counter
SumByProvider(f) == f["mtarget"] + f["twilio"]

\* the sends that start one more attempt of the run they are in, in this step
Retrying ==
    {c \in Reqs :
        /\ svc.sends[c].pc = "net"
        /\ svc'.sends[c].pc = "net"
        /\ svc'.sends[c].provider = svc.sends[c].provider
        /\ svc'.sends[c].attempt = svc.sends[c].attempt + 1}

\* C40: in every reachable state total_sent is the sum of sent_by_provider
\* and total_failed the sum of failed_by_provider; no counter ever decreases;
\* and total_retries grows by one exactly when a provider run starts an
\* attempt after its first, so that a run adds its attempts less one (a run
\* the circuit breaker refuses, and a run that ends at its first attempt,
\* add nothing)
C40_MetricsConsistent ==
    /\ [](/\ svc.metrics.total_sent
                = SumByProvider(svc.metrics.sent_by_provider)
          /\ svc.metrics.total_failed
                = SumByProvider(svc.metrics.failed_by_provider))
    /\ [][/\ svc'.metrics.total_sent >= svc.metrics.total_sent
          /\ svc'.metrics.total_failed >= svc.metrics.total_failed
          /\ svc'.metrics.total_retries >= svc.metrics.total_retries
          /\ \A p \in Providers :
                /\ svc'.metrics.sent_by_provider[p]
                      >= svc.metrics.sent_by_provider[p]
                /\ svc'.metrics.failed_by_provider[p]
                      >= svc.metrics.failed_by_provider[p]
          /\ svc'.metrics.total_retries
                = svc.metrics.total_retries + Cardinality(Retrying)]_vars

\* one send is at the second attempt of a run while the other has had a run
\* refused by the circuit breaker, after retries and failures were counted
C40_Witness ==
    \E c, d \in Reqs :
        /\ c # d
        /\ svc.sends[c].pc = "net"
        /\ svc.sends[c].attempt = 2
        /\ \E i \in DOMAIN svc.sends[d].ran :
              svc.sends[d].ran[i].provider \notin svc.sends[d].permitted
        /\ svc.metrics.total_retries >= 2
        /\ svc.metrics.total_failed >= 2

====
